---- MODULE Spec2Model ----
(***************************************************************************)
(* Quick order start workflow (tracker/views_start_order.py): the          *)
(* Customer / Vehicle / Order tables and the request handlers that read    *)
(* and write them.  A text value is a sequence of tokens; the token " "    *)
(* is white space and "\n" a line break.  A primary key is the index of a  *)
(* row in its table, so rows are created by appending.                     *)
(***************************************************************************)
EXTENDS Integers, Sequences, FiniteSets, TLC

VARIABLES customers, vehicles, orders, now, inflight, last

vars == <<customers, vehicles, orders, now, inflight, last>>

db == [customers |-> customers, vehicles |-> vehicles, orders |-> orders]

-----------------------------------------------------------------------------
(* Bounds of the model. *)

\* Orders are created without limit; the model stops creating at MaxOrders.
MaxOrders == 2

\* The start-order requests that may be inside their transaction at once.
MaxInflight == 2

\* The orders of the runs with overlapping requests.
MaxRaceOrders == 3

\* The clock stops at MaxTime.
MaxTime == 2

\* The ticks of the clock in one day.
TicksPerDay == 2

\* The orders of the runs that count the started orders.
MaxKpiOrders == 3

-----------------------------------------------------------------------------
(* Python values. *)

\* An optional integer: None, or <<n>> for the integer n.
NoneInt == <<>>

Some(n) == <<n>>

\* None in a foreign key or an id argument (primary keys start at 1).
NoId == 0

\* None in a text column.
NoneText == <<"None">>

\* The branch get_user_branch gives a user that has none.
NoBranch == "None"

IsSpace(t) == t \in {" ", "\n"}

RECURSIVE LStrip(_)
LStrip(s) == IF s # <<>> /\ IsSpace(Head(s)) THEN LStrip(Tail(s)) ELSE s

RECURSIVE RStrip(_)
RStrip(s) ==
    IF s # <<>> /\ IsSpace(s[Len(s)]) THEN RStrip(SubSeq(s, 1, Len(s) - 1)) ELSE s

\* str.strip()
Strip(s) == RStrip(LStrip(s))

UpperTok(t) ==
    CASE t = "a" -> "A"
      [] t = "b" -> "B"
      [] OTHER -> t

LowerTok(t) ==
    CASE t = "A" -> "a"
      [] t = "B" -> "b"
      [] t = "Services:" -> "services:"
      [] t = "Add-ons:" -> "add-ons:"
      [] t = "ADD-ONS:" -> "add-ons:"
      [] t = "Tire Services:" -> "tire services:"
      [] OTHER -> t

\* str.upper()
Upper(s) == [i \in 1..Len(s) |-> UpperTok(s[i])]

\* str.lower()
Lower(s) == [i \in 1..Len(s) |-> LowerTok(s[i])]

\* The __iexact field lookup.
IExact(a, b) == Upper(a) = Upper(b)

\* Python truthiness of a str.
Truthy(s) == s # <<>>

Min(S) == CHOOSE m \in S : \A n \in S : m <= n

Max(S) == CHOOSE m \in S : \A n \in S : m >= n

-----------------------------------------------------------------------------
(* Collaborators that live outside this file. *)

Branches == {"b1", "b2"}

Users == {"u1", "u2", "u3"}

\* utils.get_user_branch: the branch of the authenticated user.
get_user_branch(user) ==
    CASE user = "u1" -> "b1"
      [] user = "u2" -> "b1"
      [] user = "u3" -> "b2"
      [] OTHER -> NoBranch

\* The Customer rows with the unique fields (branch, name, phone, org, tax).
CustomerMatches(d, branch, full_name, phone, organization_name, tax_number) ==
    {c \in 1..Len(d.customers) :
        /\ d.customers[c].branch = branch
        /\ d.customers[c].full_name = full_name
        /\ d.customers[c].phone = phone
        /\ d.customers[c].organization_name = organization_name
        /\ d.customers[c].tax_number = tax_number}

\* The identifying fields of Customer(**f), given or defaulted to None.
CustomerRow(f) == [branch |-> f.branch, full_name |-> f.full_name, phone |-> f.phone, customer_type |-> f.customer_type, personal_subtype |-> f.personal_subtype, organization_name |-> f.organization_name, tax_number |-> f.tax_number]

\* services.CustomerService.create_or_get_customer: the customer of the branch
\* with these identifying fields, created when there is none.
create_or_get_customer(d, f) ==
    LET found == CustomerMatches(d, f.branch, f.full_name, f.phone,
                                 f.organization_name, f.tax_number)
    IN  IF found # {}
        THEN [db |-> d, id |-> Min(found)]
        ELSE [db |-> [d EXCEPT !.customers = Append(@, CustomerRow(f))],
              id |-> Len(d.customers) + 1]

\* services.VehicleService.create_or_get_vehicle: the vehicle with this plate
\* under this customer, created when there is none.
create_or_get_vehicle(d, customer, plate_number, make, model) ==
    LET found == {v \in 1..Len(d.vehicles) :
                    /\ d.vehicles[v].customer = customer
                    /\ IExact(d.vehicles[v].plate_number, plate_number)}
    IN  IF found # {}
        THEN [db |-> d, id |-> Min(found)]
        ELSE [db |-> [d EXCEPT !.vehicles =
                         Append(@, [customer |-> customer,
                                    plate_number |-> plate_number,
                                    make |-> make, model |-> model])],
              id |-> Len(d.vehicles) + 1]

-----------------------------------------------------------------------------
(* Queries. *)

\* The plate lookup without its branch filter.
VehiclesByPlateAnyBranch(d, plate, branch) ==
    {v \in 1..Len(d.vehicles) : IExact(d.vehicles[v].plate_number, plate)}

\* Vehicle.objects.filter(plate_number__iexact=plate, customer__branch=branch)
VehiclesByPlate(d, plate, branch) ==
    {v \in 1..Len(d.vehicles) :
        /\ IExact(d.vehicles[v].plate_number, plate)
        /\ d.customers[d.vehicles[v].customer].branch = branch}

\* The orders of a vehicle whatever their status.
OrdersOfAnyStatus(d, vehicle) == {o \in 1..Len(d.orders) : d.orders[o].vehicle = vehicle}

\* Order.objects.filter(vehicle=vehicle, status='created')
CreatedOrdersOf(d, vehicle) ==
    {o \in 1..Len(d.orders) :
        d.orders[o].vehicle = vehicle /\ d.orders[o].status = "created"}

\* QuerySet.first() of a query without an ordering: the lowest primary key.
First(S) == IF S = {} THEN NoId ELSE Min(S)

\* order_by('-created_at').first(): the row created last.
Latest(S) == IF S = {} THEN NoId ELSE Max(S)

\* A block that raised and whose writes stay.
AtomicKeepsPartial(before, partial) == partial

\* transaction.atomic(): what is stored when the block raised.
AtomicRollback(before, partial) == before

Response(status, kind) ==
    [status |-> status, kind |-> kind, order_id |-> NoId,
     customer_id |-> NoId, vehicle_id |-> NoId, found |-> FALSE]

Raised(d) == [ok |-> FALSE, db |-> d, id |-> NoId]

Returned(res) == [ok |-> TRUE, db |-> res.db, id |-> res.id]

\* ", ".join(names)
RECURSIVE JoinComma(_)
JoinComma(names) ==
    IF names = <<>> THEN <<>>
    ELSE IF Len(names) = 1 THEN <<names[1]>>
    ELSE <<names[1], ",", " ">> \o JoinComma(Tail(names))

RECURSIVE SumMinutes(_)
SumMinutes(rows) ==
    IF rows = {} THEN 0
    ELSE LET x == CHOOSE y \in rows : TRUE
         IN  (IF x.estimated_minutes = NoneInt THEN 0 ELSE x.estimated_minutes[1])
             + SumMinutes(rows \ {x})

SeqRange(q) == {q[i] : i \in 1..Len(q)}

-----------------------------------------------------------------------------
(* The service catalogue: tables this file only reads. *)

ServiceTypeRows ==
    {[name |-> "Oil", estimated_minutes |-> Some(30), is_active |-> TRUE],
     [name |-> "Wash", estimated_minutes |-> Some(20), is_active |-> FALSE],
     [name |-> "Check", estimated_minutes |-> NoneInt, is_active |-> TRUE]}

ServiceAddonRows ==
    {[name |-> "Wax", estimated_minutes |-> Some(15)],
     [name |-> "Oil", estimated_minutes |-> Some(10)]}

-----------------------------------------------------------------------------
(* api_start_order *)

StartOrderTypesAndRepair == {<<"service">>, <<"sales">>, <<"inquiry">>, <<"repair">>}

StartOrderTypes == {<<"service">>, <<"sales">>, <<"inquiry">>}

\* The temporary customer of a plate: full_name "Plate X", phone "PLATE_X".
PlaceholderFields(branch, plate) ==
    [branch |-> branch, full_name |-> <<"Plate", " ">> \o plate,
     phone |-> <<"PLATE_">> \o plate, customer_type |-> <<"personal">>,
     personal_subtype |-> NoneText, organization_name |-> NoneText,
     tax_number |-> NoneText]

create_customer(d, f) ==
    [db |-> [d EXCEPT !.customers = Append(@, CustomerRow(f))], id |-> Len(d.customers) + 1]

\* Customer.objects.get_or_create on the unique fields, the fallback.
get_or_create_customer(d, f) ==
    LET found == CustomerMatches(d, f.branch, f.full_name, f.phone, NoneText, NoneText)
    IN  IF found # {}
        THEN [db |-> d, id |-> Min(found)]
        ELSE [db |-> [d EXCEPT !.customers = Append(@, CustomerRow(f))],
              id |-> Len(d.customers) + 1]

\* get_object_or_404(Customer, id=id, branch=branch)
CustomerInBranch(d, id, branch) ==
    id \in 1..Len(d.customers) /\ d.customers[id].branch = branch

\* The customer a start-order request works on.
StartCustomer(d, r, plate, ub) ==
    IF r.use_existing_customer /\ r.existing_customer_id # NoId
    THEN IF CustomerInBranch(d, r.existing_customer_id, ub)
         THEN [ok |-> TRUE, db |-> d, id |-> r.existing_customer_id]
         ELSE Raised(d)
    ELSE IF r.fault = "customer" THEN Raised(d)
    ELSE IF r.fault = "customer_service"
         THEN Returned(get_or_create_customer(d, PlaceholderFields(ub, plate)))
    ELSE Returned(create_or_get_customer(d, PlaceholderFields(ub, plate)))

StartVehicle(d, r, customer, plate) ==
    IF r.fault = "vehicle" THEN Raised(d)
    ELSE Returned(create_or_get_vehicle(d, customer, plate, NoneText, NoneText))

StartDurationAllTypes(r) ==
    IF r.service_selection # <<>> /\ r.order_type = <<"service">> /\ r.fault # "lookup"
    THEN LET svc == {x \in ServiceTypeRows : x.name \in SeqRange(r.service_selection)}
             add == {x \in ServiceAddonRows : x.name \in SeqRange(r.service_selection)}
             total_minutes == SumMinutes(svc) + SumMinutes(add)
         IN  IF total_minutes # 0 THEN Some(total_minutes) ELSE r.estimated_duration
    ELSE r.estimated_duration

\* The estimate of a start-order request: the minutes of the selected services.
StartDuration(r) ==
    IF r.service_selection # <<>> /\ r.order_type = <<"service">> /\ r.fault # "lookup"
    THEN LET svc == {x \in ServiceTypeRows :
                        x.name \in SeqRange(r.service_selection) /\ x.is_active}
             add == {x \in ServiceAddonRows : x.name \in SeqRange(r.service_selection)}
             total_minutes == SumMinutes(svc) + SumMinutes(add)
         IN  IF total_minutes # 0 THEN Some(total_minutes) ELSE r.estimated_duration
    ELSE r.estimated_duration

StartDescription(r, plate) ==
    <<"Order started for", " ">> \o plate
    \o (IF r.service_selection # <<>>
        THEN <<":", " ">> \o JoinComma(r.service_selection) ELSE <<>>)

\* Order.objects.create(...) of api_start_order.
StartOrderRow(r, customer, vehicle, ub, plate, t) ==
    [customer |-> customer, vehicle |-> vehicle, branch |-> ub,
     type |-> r.order_type, status |-> "created", started_at |-> t,
     completed_at |-> NoneInt, description |-> StartDescription(r, plate),
     priority |-> <<"medium">>,
     estimated_duration |->
        IF StartDuration(r) \notin {NoneInt, Some(0)} THEN StartDuration(r) ELSE NoneInt,
     actual_duration |-> NoneInt,
     overrun_reason |-> NoneText, overrun_reported_at |-> NoneInt,
     overrun_reported_by |-> "None"]

\* The created order of the vehicle that start-order's transaction reuses.
StartExistingOrder(d, vehicle) == First(CreatedOrdersOf(d, vehicle))

ServerError(d, partial) ==
    [db |-> AtomicRollback(d, partial), resp |-> Response(500, "error")]

Unresolved(d) ==
    [ok |-> FALSE, db |-> d, customer |-> NoId, vehicle |-> NoId, existing_order |-> NoId]

\* The first part of the transaction: the customer, the vehicle, and the read
\* of the vehicle's created order.
StartResolve(d, r, plate, ub) ==
    LET c == StartCustomer(d, r, plate, ub)
    IN  IF ~c.ok THEN Unresolved(c.db)
        ELSE LET v == StartVehicle(c.db, r, c.id, plate)
             IN  IF ~v.ok THEN Unresolved(v.db)
                 ELSE [ok |-> TRUE, db |-> v.db, customer |-> c.id, vehicle |-> v.id,
                       existing_order |-> StartExistingOrder(v.db, v.id)]

\* A second part that reads the vehicle's created order again before it inserts.
StartStoreRereads(d, x, r, plate, ub, t) ==
    IF ~x.ok THEN ServerError(d, x.db)
    ELSE IF StartExistingOrder(x.db, x.vehicle) # NoId
         THEN [db |-> x.db,
               resp |-> [Response(201, "started")
                           EXCEPT !.order_id = StartExistingOrder(x.db, x.vehicle)]]
    ELSE IF r.fault = "order" THEN ServerError(d, x.db)
    ELSE [db |-> [x.db EXCEPT !.orders =
                     Append(@, StartOrderRow(r, x.customer, x.vehicle, ub, plate, t))],
          resp |-> [Response(201, "started") EXCEPT !.order_id = Len(x.db.orders) + 1]]

\* The second part of the transaction: the order that was read, or a new one;
\* then the 201 response.  d is what is stored if the block raises.
StartStore(d, x, r, plate, ub, t) ==
    IF ~x.ok THEN ServerError(d, x.db)
    ELSE IF x.existing_order # NoId
         THEN [db |-> x.db, resp |-> [Response(201, "started") EXCEPT !.order_id = x.existing_order]]
    ELSE IF r.fault = "order" THEN ServerError(d, x.db)
    ELSE [db |-> [x.db EXCEPT !.orders =
                     Append(@, StartOrderRow(r, x.customer, x.vehicle, ub, plate, t))],
          resp |-> [Response(201, "started") EXCEPT !.order_id = Len(x.db.orders) + 1]]

\* with transaction.atomic(): both parts, with no other request in between.
StartCommit(d, r, plate, ub, t) == StartStore(d, StartResolve(d, r, plate, ub), r, plate, ub, t)

\* The caller has not confirmed the reuse of a customer.
Unconfirmed(r) == ~r.use_existing_customer /\ r.existing_customer_id = NoId

\* A start that never returns the created order of the vehicle.
ReturnsExistingOrderNever(r, existing_order) == FALSE

\* The guard of the early return of the vehicle's created order.
ReturnsExistingOrder(r, existing_order) == existing_order # NoId /\ Unconfirmed(r)

\* A start that never asks for the confirmation of a known plate.
ReturnsExistingCustomerNever(r, existing_vehicle) == FALSE

\* The guard of the early return of the plate's customer and vehicle.
ReturnsExistingCustomer(r, existing_vehicle) == existing_vehicle # NoId /\ Unconfirmed(r)

NotAnswered == [done |-> FALSE, resp |-> Response(0, "none")]

Answered(resp) == [done |-> TRUE, resp |-> resp]

\* The part before the transaction: the validation and the two early returns.
StartEarly(d, r) ==
    LET plate_number == Upper(Strip(r.plate_number))
        user_branch == get_user_branch(r.user)
        existing_vehicle == First(VehiclesByPlate(d, plate_number, user_branch))
        existing_order == Latest(CreatedOrdersOf(d, existing_vehicle))
    IN  IF ~Truthy(plate_number) THEN Answered(Response(400, "plate_required"))
        ELSE IF r.order_type \notin StartOrderTypes
             THEN Answered(Response(400, "invalid_order_type"))
        ELSE IF existing_vehicle # NoId /\ ReturnsExistingOrder(r, existing_order)
             THEN Answered([Response(200, "existing_order") EXCEPT !.order_id = existing_order])
        ELSE IF ReturnsExistingCustomer(r, existing_vehicle)
             THEN Answered([Response(200, "existing_customer")
                              EXCEPT !.customer_id = d.vehicles[existing_vehicle].customer,
                                     !.vehicle_id = existing_vehicle])
        ELSE NotAnswered

api_start_order(d, r, t) ==
    IF StartEarly(d, r).done THEN [db |-> d, resp |-> StartEarly(d, r).resp]
    ELSE StartCommit(d, r, Upper(Strip(r.plate_number)), get_user_branch(r.user), t)

-----------------------------------------------------------------------------
(* api_check_plate *)

\* A check of the plate that takes the last vehicle of the query.
api_check_plate_last(d, r) ==
    LET plate_number == Upper(Strip(r.plate_number))
        vehicle == Latest(VehiclesByPlate(d, plate_number, get_user_branch(r.user)))
    IN  IF ~Truthy(plate_number) \/ vehicle = NoId THEN [db |-> d, resp |-> Response(200, "check_plate")]
        ELSE [db |-> d,
              resp |-> [Response(200, "check_plate")
                          EXCEPT !.found = TRUE,
                                 !.customer_id = d.vehicles[vehicle].customer,
                                 !.vehicle_id = vehicle]]

api_check_plate(d, r) ==
    LET plate_number == Upper(Strip(r.plate_number))
        user_branch == get_user_branch(r.user)
        vehicle == First(VehiclesByPlate(d, plate_number, user_branch))
    IN  IF ~Truthy(plate_number) THEN [db |-> d, resp |-> Response(200, "check_plate")]
        ELSE IF vehicle = NoId THEN [db |-> d, resp |-> Response(200, "check_plate")]
        ELSE [db |-> d,
              resp |-> [Response(200, "check_plate")
                          EXCEPT !.found = TRUE,
                                 !.customer_id = d.vehicles[vehicle].customer,
                                 !.vehicle_id = vehicle]]

-----------------------------------------------------------------------------
(* Text helpers of the form handlers. *)

\* str.split(sep), for a one-token separator.
RECURSIVE Split(_, _)
Split(s, sep) ==
    IF \A i \in 1..Len(s) : s[i] # sep THEN <<s>>
    ELSE LET k == Min({i \in 1..Len(s) : s[i] = sep})
         IN  <<SubSeq(s, 1, k - 1)>> \o Split(SubSeq(s, k + 1, Len(s)), sep)

\* sep.join(parts), for a separator text.
RECURSIVE Join(_, _)
Join(parts, sep) ==
    IF parts = <<>> THEN <<>>
    ELSE IF Len(parts) = 1 THEN parts[1]
    ELSE parts[1] \o sep \o Join(Tail(parts), sep)

DigitVal(t) ==
    CASE t = "0" -> 0 [] t = "1" -> 1 [] t = "2" -> 2 [] t = "3" -> 3
      [] t = "4" -> 4 [] t = "5" -> 5 [] t = "6" -> 6 [] t = "7" -> 7
      [] t = "8" -> 8 [] t = "9" -> 9 [] OTHER -> -1

RECURSIVE DigitsVal(_)
DigitsVal(s) == IF s = <<>> THEN 0 ELSE 10 * DigitsVal(SubSeq(s, 1, Len(s) - 1)) + DigitVal(s[Len(s)])

IsDigits(s) == s # <<>> /\ \A i \in 1..Len(s) : DigitVal(s[i]) >= 0

\* int(s) of a stripped str: <<n>>, or None where int raises ValueError.
ParseInt(s) ==
    IF IsDigits(s) THEN Some(DigitsVal(s))
    ELSE IF s # <<>> /\ s[1] = "-" /\ IsDigits(Tail(s)) THEN Some(0 - DigitsVal(Tail(s)))
    ELSE IF s # <<>> /\ s[1] = "+" /\ IsDigits(Tail(s)) THEN Some(DigitsVal(Tail(s)))
    ELSE NoneInt

CustomerTypes == {<<"personal">>, <<"company">>, <<"government">>, <<"ngo">>}

OrganizationalTypes == {<<"company">>, <<"government">>, <<"ngo">>}

Priorities == {<<"low">>, <<"medium">>, <<"high">>, <<"urgent">>}

\* get_object_or_404(Order, id=order_id, branch=user_branch)
OrderInBranch(d, id, branch) ==
    id \in 1..Len(d.orders) /\ d.orders[id].branch = branch

\* The keyword arguments of create_or_get_customer of the two form handlers.
FormCustomerFields(ub, customer_name, phone, customer_type, personal_subtype, organization_name, tax_number) ==
    IF customer_type = <<"personal">>
    THEN [branch |-> ub, full_name |-> customer_name, phone |-> phone,
          customer_type |-> customer_type, personal_subtype |-> personal_subtype,
          organization_name |-> NoneText, tax_number |-> NoneText]
    ELSE [branch |-> ub, full_name |-> customer_name, phone |-> phone,
          customer_type |-> customer_type, personal_subtype |-> NoneText,
          organization_name |-> organization_name, tax_number |-> tax_number]

\* x or None
OrNone(s) == IF Truthy(s) THEN s ELSE NoneText

-----------------------------------------------------------------------------
(* api_update_order_from_extraction *)

\* The validation without the check of the personal subtype.
ExtractionErrorNoSubtype(customer_name, phone, customer_type, personal_subtype, organization_name, tax_number) ==
    IF ~Truthy(customer_name) \/ ~Truthy(phone) THEN "name_phone_required"
    ELSE IF ~Truthy(customer_type) THEN "customer_type_required"
    ELSE IF customer_type \notin {<<"personal">>, <<"company">>, <<"government">>, <<"ngo">>}
         THEN "invalid_customer_type"
    ELSE IF customer_type # <<"personal">>
            /\ (~Truthy(organization_name) \/ ~Truthy(tax_number))
         THEN "organization_required"
    ELSE ""

\* The validation that asks for an organization name or a tax number.
ExtractionErrorNameOrTax(customer_name, phone, customer_type, personal_subtype, organization_name, tax_number) ==
    IF ~Truthy(customer_name) \/ ~Truthy(phone) THEN "name_phone_required"
    ELSE IF ~Truthy(customer_type) THEN "customer_type_required"
    ELSE IF customer_type \notin {<<"personal">>, <<"company">>, <<"government">>, <<"ngo">>}
         THEN "invalid_customer_type"
    ELSE IF customer_type = <<"personal">> /\ ~Truthy(personal_subtype)
         THEN "personal_subtype_required"
    ELSE IF customer_type # <<"personal">>
            /\ (~Truthy(organization_name) /\ ~Truthy(tax_number))
         THEN "organization_required"
    ELSE ""

\* The validation that takes any customer type.
ExtractionErrorAnyType(customer_name, phone, customer_type, personal_subtype, organization_name, tax_number) ==
    IF ~Truthy(customer_name) \/ ~Truthy(phone) THEN "name_phone_required"
    ELSE IF ~Truthy(customer_type) THEN "customer_type_required"
    ELSE IF customer_type = <<"personal">> /\ ~Truthy(personal_subtype)
         THEN "personal_subtype_required"
    ELSE IF customer_type \in {<<"company">>, <<"government">>, <<"ngo">>}
            /\ (~Truthy(organization_name) \/ ~Truthy(tax_number))
         THEN "organization_required"
    ELSE ""

\* The validation of the extracted fields: the error, or "" when they pass.
ExtractionError(customer_name, phone, customer_type, personal_subtype, organization_name, tax_number) ==
    IF ~Truthy(customer_name) \/ ~Truthy(phone) THEN "name_phone_required"
    ELSE IF ~Truthy(customer_type) THEN "customer_type_required"
    ELSE IF customer_type \notin CustomerTypes THEN "invalid_customer_type"
    ELSE IF customer_type = <<"personal">> /\ ~Truthy(personal_subtype)
         THEN "personal_subtype_required"
    ELSE IF customer_type \in OrganizationalTypes
            /\ (~Truthy(organization_name) \/ ~Truthy(tax_number))
         THEN "organization_required"
    ELSE ""

\* The description the merge stores: the text, then a Services: line.
ExtractionDescription(description, services) ==
    LET stripped == [i \in 1..Len(Split(services, ",")) |-> Strip(Split(services, ",")[i])]
        service_list == SelectSeq(stripped, Truthy)
        services_text == <<"Services:", " ">> \o Join(service_list, <<",", " ">>)
    IN  IF Truthy(services) /\ service_list # <<>>
        THEN IF Truthy(description) THEN description \o <<"\n">> \o services_text
             ELSE services_text
        ELSE description

FormPriority(priority) == IF priority \in Priorities THEN priority ELSE <<"medium">>

\* The order row that order.save() writes at the end of the merge.
ExtractionMerge(row, r, customer, vehicle) ==
    LET est_duration == ParseInt(Strip(r.estimated_duration))
    IN  [row EXCEPT
           !.customer = customer,
           !.vehicle = IF vehicle # NoId THEN vehicle ELSE @,
           !.description = ExtractionDescription(Strip(r.description), Strip(r.services)),
           !.priority = FormPriority(Strip(r.priority)),
           !.estimated_duration =
               IF est_duration \notin {NoneInt, Some(0)} THEN est_duration ELSE @]

FormCustomer(d, r, fields) ==
    IF r.fault = "customer" THEN Raised(d)
    ELSE Returned(create_or_get_customer(d, fields))

FormVehicle(d, r, customer, plate_number) ==
    IF ~Truthy(plate_number) THEN [ok |-> TRUE, db |-> d, id |-> NoId]
    ELSE IF r.fault = "vehicle" THEN Raised(d)
    ELSE Returned(create_or_get_vehicle(d, customer, plate_number,
                                        OrNone(Strip(r.make)), OrNone(Strip(r.model))))

\* with transaction.atomic(): customer, vehicle, the merged order; then 200.
ExtractionCommit(d, r, ub, fields) ==
    LET c == FormCustomer(d, r, fields)
    IN  IF ~c.ok THEN ServerError(d, c.db)
        ELSE LET v == FormVehicle(c.db, r, c.id, Upper(Strip(r.plate_number)))
             IN  IF ~v.ok THEN ServerError(d, v.db)
                 ELSE IF r.fault = "order" THEN ServerError(d, v.db)
                 ELSE [db |-> [v.db EXCEPT !.orders[r.order_id] =
                                  ExtractionMerge(d.orders[r.order_id], r, c.id, v.id)],
                       resp |-> [Response(200, "updated") EXCEPT !.order_id = r.order_id]]

\* Whether the merge may write into this order.
ExtractionTarget(d, id, ub) == OrderInBranch(d, id, ub)

api_update_order_from_extraction(d, r) ==
    LET user_branch == get_user_branch(r.user)
        customer_type == Strip(r.customer_type)
        personal_subtype == Strip(r.personal_subtype)
        organization_name == Strip(r.organization_name)
        tax_number == Strip(r.tax_number)
        customer_name == Strip(r.customer_name)
        phone == Strip(r.phone)
        error == ExtractionError(customer_name, phone, customer_type, personal_subtype, organization_name, tax_number)
    IN  IF r.order_id = NoId THEN [db |-> d, resp |-> Response(400, "order_id_required")]
        ELSE IF ~ExtractionTarget(d, r.order_id, user_branch) THEN ServerError(d, d)
        ELSE IF error # "" THEN [db |-> d, resp |-> Response(400, error)]
        ELSE ExtractionCommit(d, r, user_branch,
                              FormCustomerFields(user_branch, customer_name, phone, customer_type, personal_subtype, organization_name, tax_number))

-----------------------------------------------------------------------------
(* api_create_order_from_modal *)

ModalOrderTypes == {<<"service">>, <<"sales">>, <<"inquiry">>, <<"upload">>}

\* The validation of the modal form: the error, or "" when it passes.
ModalError(customer_name, phone, order_type, customer_type, personal_subtype, organization_name, tax_number) ==
    IF ~Truthy(customer_name) \/ ~Truthy(phone) THEN "name_phone_required"
    ELSE IF order_type \notin ModalOrderTypes THEN "invalid_order_type"
    ELSE IF customer_type \notin CustomerTypes THEN "invalid_customer_type"
    ELSE IF customer_type = <<"personal">> /\ ~Truthy(personal_subtype)
         THEN "personal_subtype_required"
    ELSE IF customer_type \in OrganizationalTypes
            /\ (~Truthy(organization_name) \/ ~Truthy(tax_number))
         THEN "organization_required"
    ELSE ""

\* Order.objects.create(...) of api_create_order_from_modal.
ModalOrderRow(r, customer, vehicle, ub, t) ==
    [customer |-> customer, vehicle |-> vehicle, branch |-> ub,
     type |-> Strip(r.order_type), status |-> "created", started_at |-> t,
     completed_at |-> NoneInt,
     description |->
        IF Truthy(Strip(r.description)) THEN Strip(r.description)
        ELSE <<"Order for", " ">> \o Strip(r.customer_name),
     priority |-> FormPriority(Strip(r.priority)),
     estimated_duration |-> ParseInt(Strip(r.estimated_duration)),
     actual_duration |-> NoneInt,
     overrun_reason |-> NoneText, overrun_reported_at |-> NoneInt,
     overrun_reported_by |-> "None"]

\* The order the modal stores for the resolved customer and vehicle.
ModalOrderStep(d, r, customer, vehicle, ub, t) ==
    IF r.fault = "order" THEN Raised(d)
    ELSE [ok |-> TRUE,
          db |-> [d EXCEPT !.orders = Append(@, ModalOrderRow(r, customer, vehicle, ub, t))],
          id |-> Len(d.orders) + 1]

\* with transaction.atomic(): customer, vehicle, a new order; then 201.
ModalCommit(d, r, ub, fields, t) ==
    LET c == FormCustomer(d, r, fields)
    IN  IF ~c.ok THEN ServerError(d, c.db)
        ELSE LET v == FormVehicle(c.db, r, c.id, Upper(Strip(r.plate_number)))
             IN  IF ~v.ok THEN ServerError(d, v.db)
                 ELSE LET o == ModalOrderStep(v.db, r, c.id, v.id, ub, t)
                      IN  IF ~o.ok THEN ServerError(d, o.db)
                          ELSE [db |-> o.db,
                                resp |-> [Response(201, "created") EXCEPT !.order_id = o.id]]

api_create_order_from_modal(d, r, t) ==
    LET user_branch == get_user_branch(r.user)
        customer_type == Strip(r.customer_type)
        personal_subtype == Strip(r.personal_subtype)
        organization_name == Strip(r.organization_name)
        tax_number == Strip(r.tax_number)
        customer_name == Strip(r.customer_name)
        phone == Strip(r.phone)
        error == ModalError(customer_name, phone, Strip(r.order_type), customer_type, personal_subtype, organization_name, tax_number)
    IN  IF error # "" THEN [db |-> d, resp |-> Response(400, error)]
        ELSE ModalCommit(d, r, user_branch,
                         FormCustomerFields(user_branch, customer_name, phone, customer_type, personal_subtype, organization_name, tax_number), t)

-----------------------------------------------------------------------------
(* started_order_detail: the POST actions on one order *)

ServiceHeaders == {"services:", "add-ons:", "tire services:"}

\* l.strip().lower().startswith(header) for one of the three headers
IsServiceLine(l) ==
    LET x == Lower(Strip(l)) IN x # <<>> /\ x[1] \in ServiceHeaders

NotServiceLine(l) == ~IsServiceLine(l)

NotBlank(l) == Strip(l) # <<>>

DetailDescriptionAppends(row, services) ==
    LET svc_text == Join(services, <<",", " ">>)
        lines == Split(row.description, "\n")
        header == IF row.type = <<"sales">> THEN "Tire Services:" ELSE "Services:"
        appended == Append(lines, <<header, " ">> \o svc_text)
    IN  Join(SelectSeq(appended, NotBlank), <<"\n">>)

\* The description after the selected services replace the old service lines;
\* every selected service is a text.
DetailDescription(row, services) ==
    LET svc_text == Join(services, <<",", " ">>)
        lines == SelectSeq(Split(row.description, "\n"), NotServiceLine)
        header == IF row.type = <<"sales">> THEN "Tire Services:" ELSE "Services:"
        appended == Append(lines, <<header, " ">> \o svc_text)
    IN  Join(SelectSeq(appended, NotBlank), <<"\n">>)

\* action == 'update_order_details': the row that order.save() writes.
UpdateOrderDetailsRow(row, r) ==
    LET est == ParseInt(LStrip(RStrip(r.estimated_duration)))
    IN  [row EXCEPT
           !.description = IF r.services # <<>> THEN DetailDescription(row, r.services) ELSE @,
           !.estimated_duration = IF Truthy(r.estimated_duration) /\ est # NoneInt THEN est ELSE @]

\* action == 'complete_order': the row that order.save() writes.
CompleteOrderRowOnlyCreated(row, t) ==
    IF row.status = "created" THEN [row EXCEPT !.status = "completed", !.completed_at = Some(t)]
    ELSE row

CompleteOrderRowStatusOnly(row, t) == [row EXCEPT !.status = "completed"]

CompleteOrderRow(row, t) == [row EXCEPT !.status = "completed", !.completed_at = Some(t)]

\* action == 'update_customer': the row that order.customer.save() writes.
UpdateCustomerRow(row, r) ==
    [row EXCEPT !.full_name = r.full_name, !.phone = r.phone,
                !.customer_type = r.customer_type,
                !.personal_subtype = IF Truthy(Strip(r.personal_subtype))
                                     THEN Strip(r.personal_subtype) ELSE @]

\* action == 'update_vehicle': the row that order.vehicle.save() writes.
UpdateVehicleRow(row, r) == [row EXCEPT !.make = r.make, !.model = r.model]

started_order_detail(d, r, t) ==
    LET user_branch == get_user_branch(r.user)
    IN  IF ~OrderInBranch(d, r.order_id, user_branch)
        THEN [db |-> d, resp |-> Response(404, "not_found")]
        ELSE IF r.action = "update_order_details"
             THEN [db |-> [d EXCEPT !.orders[r.order_id] = UpdateOrderDetailsRow(@, r)],
                   resp |-> [Response(302, "detail") EXCEPT !.order_id = r.order_id]]
        ELSE IF r.action = "complete_order"
             THEN [db |-> [d EXCEPT !.orders[r.order_id] = CompleteOrderRow(@, t)],
                   resp |-> [Response(302, "dashboard") EXCEPT !.order_id = r.order_id]]
        ELSE IF r.action = "update_customer"
             THEN [db |-> [d EXCEPT !.customers[d.orders[r.order_id].customer] = UpdateCustomerRow(@, r)],
                   resp |-> [Response(200, "detail") EXCEPT !.order_id = r.order_id]]
        ELSE IF r.action = "update_vehicle" /\ d.orders[r.order_id].vehicle # NoId
             THEN [db |-> [d EXCEPT !.vehicles[d.orders[r.order_id].vehicle] = UpdateVehicleRow(@, r)],
                   resp |-> [Response(200, "detail") EXCEPT !.order_id = r.order_id]]
        ELSE [db |-> d, resp |-> [Response(200, "detail") EXCEPT !.order_id = r.order_id]]

-----------------------------------------------------------------------------
(* api_record_overrun_reason *)

\* The three overrun columns that save(update_fields=...) writes.
OverrunRowCompletes(row, reason, user, t) ==
    [row EXCEPT !.overrun_reason = reason, !.overrun_reported_at = Some(t),
                !.overrun_reported_by = user, !.status = "completed"]

OverrunRow(row, reason, user, t) ==
    [row EXCEPT !.overrun_reason = reason, !.overrun_reported_at = Some(t),
                !.overrun_reported_by = user]

api_record_overrun_reason(d, r, t) ==
    LET reason == Strip(r.reason)
        user_branch == get_user_branch(r.user)
    IN  IF ~Truthy(reason) THEN [db |-> d, resp |-> Response(400, "reason_required")]
        ELSE IF ~OrderInBranch(d, r.order_id, user_branch) THEN ServerError(d, d)
        ELSE [db |-> [d EXCEPT !.orders[r.order_id] = OverrunRow(@, reason, r.user, t)],
              resp |-> Response(200, "overrun_recorded")]

-----------------------------------------------------------------------------
(* overrun_reports *)

\* The delay of one listed order: both durations are tested for truth first.
DelayMinutes(actual_duration, estimated_duration) ==
    IF actual_duration \notin {NoneInt, Some(0)} /\ estimated_duration \notin {NoneInt, Some(0)}
    THEN Some(Max({0, actual_duration[1] - estimated_duration[1]}))
    ELSE NoneInt

\* qs: every order, narrowed to the branch of the user when there is one.
ReportOrders(d, user_branch) ==
    {o \in 1..Len(d.orders) : user_branch # NoBranch => d.orders[o].branch = user_branch}

\* overruns: the orders of qs with an overrun reason.
Overruns(d, user_branch) ==
    {o \in ReportOrders(d, user_branch) : d.orders[o].overrun_reason # NoneText}

\* One entry of recent_overruns.
RecentOverrun(d, o) ==
    [id |-> o, overrun_reason |-> d.orders[o].overrun_reason,
     overrun_reported_by |-> d.orders[o].overrun_reported_by,
     overrun_reported_at |-> d.orders[o].overrun_reported_at,
     delay_minutes |-> DelayMinutes(d.orders[o].actual_duration, d.orders[o].estimated_duration)]

\* The context of the page; recent_overruns lists up to 50 orders, latest
\* report first, and is kept here as the set of its entries.
overrun_reports(d, r) ==
    LET overruns == Overruns(d, get_user_branch(r.user))
    IN  [status |-> 200, kind |-> "overrun_reports",
         total_overruns |-> Cardinality(overruns),
         completed_late |-> Cardinality({o \in overruns : d.orders[o].status = "completed"}),
         recent_overruns |-> {RecentOverrun(d, o) : o \in overruns}]

-----------------------------------------------------------------------------
(* api_started_orders_kpis *)

\* datetime.date(): the day of a time.
Date(t) == t \div TicksPerDay

\* The orders of the branch whatever their status.
StartedOrdersAnyStatus(d, branch) == {o \in 1..Len(d.orders) : d.orders[o].branch = branch}

\* Order.objects.filter(branch=user_branch, status='created')
StartedOrders(d, branch) ==
    {o \in 1..Len(d.orders) : d.orders[o].branch = branch /\ d.orders[o].status = "created"}

\* ... started_at__date=timezone.now().date()
StartedToday(d, branch, t) ==
    {o \in StartedOrders(d, branch) : Date(d.orders[o].started_at) = Date(t)}

\* ... vehicle__isnull=False
WithVehicle(d, S) == {o \in S : d.orders[o].vehicle # NoId}

PlateOf(d, o) == d.vehicles[d.orders[o].vehicle].plate_number

\* .values('vehicle__plate_number').annotate(order_count=Count('id'))
\* .filter(order_count__gte=2): the plates with two orders or more among S.
RepeatedPlates(d, S) ==
    {p \in {PlateOf(d, o) : o \in S} : Cardinality({o \in S : PlateOf(d, o) = p}) >= 2}

api_started_orders_kpis(d, r, t) ==
    LET user_branch == get_user_branch(r.user)
    IN  [status |-> 200, kind |-> "kpis",
         total_started |-> Cardinality(StartedOrders(d, user_branch)),
         today_started |-> Cardinality(StartedToday(d, user_branch, t)),
         repeated_vehicles_today |->
            Cardinality(RepeatedPlates(d, WithVehicle(d, StartedToday(d, user_branch, t))))]

-----------------------------------------------------------------------------
(* started_orders_dashboard *)

\* The page: the orders listed under the status filter, and the three
\* statistics, which are counted over status 'created' whatever the filter.
started_orders_dashboard(d, r, t) ==
    LET user_branch == get_user_branch(r.user)
        status_filter == r.status
        listed == {o \in 1..Len(d.orders) :
                      d.orders[o].branch = user_branch /\ d.orders[o].status = status_filter}
        total == {o \in 1..Len(d.orders) :
                     d.orders[o].branch = user_branch /\ d.orders[o].status = "created"}
        today == {o \in 1..Len(d.orders) :
                     /\ d.orders[o].branch = user_branch /\ d.orders[o].status = "created"
                     /\ Date(d.orders[o].started_at) = Date(t)}
        today_orders == {o \in 1..Len(d.orders) :
                            /\ d.orders[o].branch = user_branch /\ d.orders[o].status = "created"
                            /\ Date(d.orders[o].started_at) = Date(t)
                            /\ d.orders[o].vehicle # NoId}
        plates == {d.vehicles[d.orders[o].vehicle].plate_number : o \in today_orders}
    IN  [status |-> 200, kind |-> "dashboard", orders |-> listed,
         total_started |-> Cardinality(total),
         today_started |-> Cardinality(today),
         repeated_vehicles_today |->
            Cardinality({p \in plates :
                Cardinality({o \in today_orders :
                    d.vehicles[d.orders[o].vehicle].plate_number = p}) >= 2})]

-----------------------------------------------------------------------------
(* The state machine: one request at a time, each handled as a whole. *)

\* The request handled last: the operation, who asked, and the answer.
NoRequest == [op |-> "none", user |-> "None", resp |-> Response(0, "none")]

Init ==
    /\ customers = <<>>
    /\ vehicles = <<>>
    /\ orders = <<>>
    /\ now = 1
    /\ inflight = <<>>
    /\ last = NoRequest

\* The tables after a handler answered, and the answer, while the orders are
\* no more than n.
AnswerUpTo(n, op, r, res) ==
    /\ Len(res.db.orders) <= n
    /\ customers' = res.db.customers
    /\ vehicles' = res.db.vehicles
    /\ orders' = res.db.orders
    /\ last' = [op |-> op, user |-> r.user, resp |-> res.resp]
    /\ UNCHANGED <<now, inflight>>

\* The tables after a handler answered, and the answer.
Answer(op, r, res) ==
    /\ Len(res.db.orders) <= MaxOrders
    /\ customers' = res.db.customers
    /\ vehicles' = res.db.vehicles
    /\ orders' = res.db.orders
    /\ last' = [op |-> op, user |-> r.user, resp |-> res.resp]
    /\ UNCHANGED <<now, inflight>>

StartOrder(R) == \E r \in R : Answer("start_order", r, api_start_order(db, r, now))

CheckPlate(R) == \E r \in R : Answer("check_plate", r, api_check_plate(db, r))

UpdateOrderFromExtraction(R) ==
    \E r \in R : Answer("update_order_from_extraction", r, api_update_order_from_extraction(db, r))

CreateOrderFromModal(R) ==
    \E r \in R : Answer("create_order_from_modal", r, api_create_order_from_modal(db, r, now))

StartedOrderDetail(R) == \E r \in R : Answer(r.action, r, started_order_detail(db, r, now))

RecordOverrunReason(R) ==
    \E r \in R : Answer("record_overrun_reason", r, api_record_overrun_reason(db, r, now))

\* A request that reads: the tables stay, the answer is kept.
Read(op, r, resp) ==
    /\ last' = [op |-> op, user |-> r.user, resp |-> resp]
    /\ UNCHANGED <<customers, vehicles, orders, now, inflight>>

StartedOrdersDashboard(R) ==
    \E r \in R : Read("started_orders_dashboard", r, started_orders_dashboard(db, r, now))

StartedOrdersKpis(R) == \E r \in R : Read("started_orders_kpis", r, api_started_orders_kpis(db, r, now))

OverrunReports(R) == \E r \in R : Read("overrun_reports", r, overrun_reports(db, r))

\* timezone.now() moves on between two requests.
Tick ==
    /\ now < MaxTime
    /\ now' = now + 1
    /\ UNCHANGED <<customers, vehicles, orders, inflight, last>>

-----------------------------------------------------------------------------
(* Requests. *)

RawPlates == {<<>>, <<" ">>, <<"a", " ">>, <<"A">>, <<"b">>}

\* The ids a request may name: those of the rows there can be, and one more.
MaxId == 3

NoFault == "none"

StartFaults == {NoFault, "customer_service", "customer", "vehicle", "order"}

StartRequest(u, p, ty, use, id, sel, est, f) ==
    [user |-> u, plate_number |-> p, order_type |-> ty, use_existing_customer |-> use,
     existing_customer_id |-> id, service_selection |-> sel, estimated_duration |-> est,
     fault |-> f]

\* Start-order requests: unconfirmed ones of every user; confirmed ones, with
\* the flag, the id or both; empty plates and an unknown order type; and the
\* faults of a transaction.
StartRequests ==
    {StartRequest("u1", p, <<"service">>, FALSE, NoId, <<>>, NoneInt, NoFault) : p \in RawPlates}
    \cup {StartRequest(u, <<"a", " ">>, <<"service">>, FALSE, NoId, <<>>, NoneInt, NoFault) :
            u \in {"u2", "u3"}}
    \cup {StartRequest("u1", p, <<"service">>, c[1], c[2], <<>>, NoneInt, NoFault) :
            p \in {<<"A">>, <<"b">>},
            c \in {<<TRUE, NoId>>, <<FALSE, 1>>, <<TRUE, 1>>, <<TRUE, 2>>, <<TRUE, MaxId>>}}
    \cup {StartRequest("u1", <<"A">>, <<"repair">>, FALSE, NoId, <<>>, NoneInt, NoFault)}
    \cup {StartRequest("u1", <<"A">>, <<"service">>, use, IF use THEN 1 ELSE NoId, <<>>, NoneInt, f) :
            use \in BOOLEAN, f \in StartFaults}

CheckPlateRequests == [user : Users, plate_number : RawPlates]

FormRequest(u, id, name, phone, ty, sub, org, tax, plate, f) ==
    [user |-> u, order_id |-> id, order_type |-> <<"service">>,
     customer_name |-> name, phone |-> phone, customer_type |-> ty,
     personal_subtype |-> sub, organization_name |-> org, tax_number |-> tax,
     description |-> <<"d">>, estimated_duration |-> <<>>, priority |-> <<"high">>,
     services |-> <<>>, plate_number |-> plate, make |-> <<>>, model |-> <<>>,
     fault |-> f]

\* A valid personal customer, and one without a subtype.
FormIdentities ==
    {<<<<"personal">>, <<"owner">>, <<>>, <<>>>>,
     <<<<"personal">>, <<" ">>, <<>>, <<>>>>}

ExtractionRequests ==
    {FormRequest("u1", id, <<"n">>, <<"5">>, i[1], i[2], i[3], i[4], p, f) :
        id \in 0..MaxId, i \in FormIdentities, p \in {<<>>, <<"a">>}, f \in {NoFault, "vehicle"}}
    \cup {FormRequest("u3", 1, <<"n">>, <<"5">>, <<"personal">>, <<"owner">>, <<>>, <<>>, <<>>, NoFault)}

ModalRequests ==
    {FormRequest("u1", NoId, <<"n">>, <<"5">>, i[1], i[2], i[3], i[4], <<"a">>, NoFault) :
        i \in FormIdentities}

CompleteRequests == [user : {"u1", "u3"}, order_id : 1..MaxId, action : {"complete_order"}]

Next ==
    \/ StartOrder(StartRequests)
    \/ CheckPlate(CheckPlateRequests)
    \/ UpdateOrderFromExtraction(ExtractionRequests)
    \/ CreateOrderFromModal(ModalRequests)
    \/ StartedOrderDetail(CompleteRequests)

Spec == Init /\ [][Next]_vars

-----------------------------------------------------------------------------
(* Properties of the requests handled one at a time. *)

Tables == <<customers, vehicles, orders>>

BranchOfVehicle(v) == customers[vehicles[v].customer].branch

\* Equality of two plates ignoring letter case.
SamePlate(p, q) == Lower(p) = Lower(q)

\* The vehicles of a branch whose plate is the one a request gives.
PlateMatches(plate, branch) ==
    {v \in 1..Len(vehicles) :
        BranchOfVehicle(v) = branch /\ SamePlate(vehicles[v].plate_number, Strip(plate))}

HasCreatedOrder(v) ==
    \E o \in 1..Len(orders) : orders[o].vehicle = v /\ orders[o].status = "created"

\* C1: every vehicle has at most one order with status 'created'.
C1_OneCreatedOrderPerVehicle ==
    \A v \in 1..Len(vehicles) :
        Cardinality({o \in 1..Len(orders) :
                        orders[o].vehicle = v /\ orders[o].status = "created"}) <= 1

UnconfirmedStarts == {r \in StartRequests : ~r.use_existing_customer /\ r.existing_customer_id = NoId}

\* C2: of two unconfirmed start-order requests for one plate, each with an
\* order type that start-order accepts, made one after the other by users of
\* one branch, the second returns the order_id the first returned and creates
\* no order, customer or vehicle.
C2_IdempotentStart ==
    \A r1 \in UnconfirmedStarts : \A r2 \in UnconfirmedStarts :
        (/\ get_user_branch(r1.user) = get_user_branch(r2.user)
         /\ r2.order_type \in StartOrderTypes
         /\ SamePlate(Strip(r1.plate_number), Strip(r2.plate_number)))
        => LET first == api_start_order(db, r1, now)
           IN  first.resp.order_id # NoId
               => LET second == api_start_order(first.db, r2, now)
                  IN  /\ second.resp.order_id = first.resp.order_id
                      /\ second.db = first.db

\* An unconfirmed start has just returned the order that a start had created.
C2_Witness ==
    /\ last.op = "start_order"
    /\ last.resp.kind = "existing_order"
    /\ Len(orders) = 1
    /\ orders[1].description[1] = "Order started for"

\* C4: a start-order request whose transaction fails leaves no customer,
\* vehicle or order of its own; one that succeeds leaves the order it returns,
\* with its customer and its vehicle.
C4_StartAllOrNothing ==
    \A r \in StartRequests :
        LET a == api_start_order(db, r, now)
        IN  /\ a.resp.status = 500 => a.db = db
            /\ a.resp.status = 201
               => /\ a.resp.order_id \in 1..Len(a.db.orders)
                  /\ a.db.orders[a.resp.order_id].customer \in 1..Len(a.db.customers)
                  /\ a.db.orders[a.resp.order_id].vehicle \in 1..Len(a.db.vehicles)

\* A start-order transaction has just failed after the tables were not empty.
C4_Witness ==
    /\ last.op = "start_order"
    /\ last.resp.status = 500
    /\ Len(orders) > 0

\* C5: check-plate finds a plate exactly when a vehicle of the user's branch
\* has it, letter case and surrounding white space ignored, and writes nothing.
C5_CheckPlate ==
    \A r \in CheckPlateRequests :
        LET a == api_check_plate(db, r)
        IN  /\ a.db = db
            /\ a.resp.found <=> PlateMatches(r.plate_number, get_user_branch(r.user)) # {}
            /\ a.resp.found => a.resp.vehicle_id \in PlateMatches(r.plate_number, get_user_branch(r.user))

\* A user of b2 was told that a plate is not found while b1 has a vehicle
\* and b2 has none.
C5_Witness ==
    /\ last.op = "check_plate"
    /\ last.user = "u3"
    /\ ~last.resp.found
    /\ Len(vehicles) > 0
    /\ \A v \in 1..Len(vehicles) : BranchOfVehicle(v) = "b1"

\* C6: an unconfirmed, valid start-order request whose plate matches vehicles
\* of the user's branch, none of them with a created order, is answered with
\* the customer and the vehicle of the plate and no order_id, and writes nothing.
C6_Probe ==
    \A r \in UnconfirmedStarts :
        LET matches == PlateMatches(r.plate_number, get_user_branch(r.user))
            a == api_start_order(db, r, now)
        IN  (/\ r.order_type \in StartOrderTypes
             /\ matches # {}
             /\ \A v \in matches : ~HasCreatedOrder(v))
            => /\ a.db = db
               /\ a.resp.order_id = NoId
               /\ a.resp.vehicle_id \in matches
               /\ a.resp.customer_id = vehicles[a.resp.vehicle_id].customer

\* A start-order request has just been answered with the plate's customer.
C6_Witness ==
    /\ last.op = "start_order"
    /\ last.resp.kind = "existing_customer"
    /\ last.resp.vehicle_id \in 1..Len(vehicles)
    /\ ~HasCreatedOrder(last.resp.vehicle_id)

MergedFields(row) ==
    <<row.customer, row.vehicle, row.description, row.priority, row.estimated_duration>>

\* C10: an extraction merge changes the customer, vehicle, description,
\* priority or estimated_duration only of an order whose status is 'created'.
C10_MergeOnlyIntoStarted ==
    [][last'.op = "update_order_from_extraction"
       => \A o \in 1..Len(orders) :
            MergedFields(orders'[o]) # MergedFields(orders[o]) => orders[o].status = "created"]_vars

-----------------------------------------------------------------------------
(* The extraction form: every combination of the validated fields. *)

FormNames == {<<>>, <<"n">>}

FormPhones == {<<>>, <<"5">>}

FormTypes == {<<>>, <<"personal">>, <<"company">>, <<"government">>, <<"ngo">>, <<"vip">>}

FormSubtypes == {<<>>, <<" ">>, <<"owner">>}

FormOrganizations == {<<>>, <<"Acme", " ">>}

FormTaxNumbers == {<<>>, <<"T1">>}

FormExtractionRequests ==
    {FormRequest(u, id, name, phone, ty, sub, org, tax, <<>>, NoFault) :
        u \in {"u1"}, id \in {1}, name \in FormNames, phone \in FormPhones, ty \in FormTypes,
        sub \in FormSubtypes, org \in FormOrganizations, tax \in FormTaxNumbers}
    \cup {FormRequest("u1", id, <<"n">>, <<"5">>, <<"ngo">>, <<>>, <<"Acme">>, <<"T1">>, <<"a">>, f) :
            id \in 0..MaxId, f \in {NoFault, "customer", "vehicle", "order"}}
    \cup {FormRequest("u3", 1, <<"n">>, <<"5">>, ty, <<>>, <<"Acme">>, tax, <<>>, NoFault) :
            ty \in {<<"personal">>, <<"company">>}, tax \in FormTaxNumbers}

FormStartRequests ==
    {StartRequest(u, <<"A">>, <<"service">>, FALSE, NoId, <<>>, NoneInt, NoFault) : u \in {"u1", "u3"}}

NextForm ==
    \/ StartOrder(FormStartRequests)
    \/ UpdateOrderFromExtraction(FormExtractionRequests)

SpecForm == Init /\ [][NextForm]_vars

\* The order a form names is one of the user's branch.
NamesOrderOfBranch(r) ==
    r.order_id \in 1..Len(orders) /\ orders[r.order_id].branch = get_user_branch(r.user)

\* The field has no character other than white space.
Empty(field) == \A i \in 1..Len(field) : field[i] \in {" ", "\n"}

IsType(field, type) == ~Empty(field) /\ Strip(field) = <<type>>

IsOrganizational(field) ==
    IsType(field, "company") \/ IsType(field, "government") \/ IsType(field, "ngo")

\* C7: an extraction merge for a personal customer without a personal subtype
\* is answered 400 and leaves every order, customer and vehicle as it was.
C7_PersonalNeedsSubtype ==
    \A r \in FormExtractionRequests :
        (IsType(r.customer_type, "personal") /\ Empty(r.personal_subtype))
        => LET a == api_update_order_from_extraction(db, r)
           IN  /\ a.db = db
               /\ NamesOrderOfBranch(r) => a.resp.status = 400

\* A merge has just been refused for its missing personal subtype.
C7_Witness ==
    /\ last.op = "update_order_from_extraction"
    /\ last.resp.status = 400
    /\ last.resp.kind = "personal_subtype_required"
    /\ Len(orders) > 0

\* C8: an extraction merge for a company, government or ngo customer without
\* an organization name or without a tax number is answered 400 and leaves
\* every order, customer and vehicle as it was.
C8_OrganizationNeedsNameAndTax ==
    \A r \in FormExtractionRequests :
        (IsOrganizational(r.customer_type)
         /\ (Empty(r.organization_name) \/ Empty(r.tax_number)))
        => LET a == api_update_order_from_extraction(db, r)
           IN  /\ a.db = db
               /\ NamesOrderOfBranch(r) => a.resp.status = 400

\* A merge has just been refused for its missing organization fields.
C8_Witness ==
    /\ last.op = "update_order_from_extraction"
    /\ last.resp.status = 400
    /\ last.resp.kind = "organization_required"
    /\ Len(orders) > 0

\* The fields that the merge requires are all given.
FormComplete(r) ==
    /\ ~Empty(r.customer_name)
    /\ ~Empty(r.phone)
    /\ IsType(r.customer_type, "personal") \/ IsOrganizational(r.customer_type)
    /\ IsType(r.customer_type, "personal") => ~Empty(r.personal_subtype)
    /\ IsOrganizational(r.customer_type)
       => ~Empty(r.organization_name) /\ ~Empty(r.tax_number)

\* C9: for an order of the user's branch, an extraction merge goes on to its
\* transaction exactly when the required fields are given, and is answered
\* 400 otherwise.
C9_ValidationDecidesCommit ==
    \A r \in FormExtractionRequests :
        NamesOrderOfBranch(r)
        => LET a == api_update_order_from_extraction(db, r)
           IN  /\ FormComplete(r) => a.resp.status \in {200, 500}
               /\ FormComplete(r) /\ r.fault = NoFault => a.resp.kind = "updated"
               /\ ~FormComplete(r) => a.resp.status = 400 /\ a.db = db

\* A merge has just passed the validation and been stored.
C9_Witness ==
    /\ last.op = "update_order_from_extraction"
    /\ last.resp.kind = "updated"
    /\ last.resp.order_id \in 1..Len(orders)
    /\ orders[last.resp.order_id].description = <<"d">>

-----------------------------------------------------------------------------
(* Overlapping start-order requests.  A request runs in two steps: up to the *)
(* read of the vehicle's created order, and from there to the commit; other  *)
(* requests may run in between.  The rows a transaction has inserted are    *)
(* seen by no other request before it commits.                               *)

\* What the transaction of tx sees on the tables d: its own uncommitted
\* customer and vehicle after the committed rows, and what it has read.
Rebase(d, tx) ==
    LET nc == tx.base[1]
        nv == tx.base[2]
        mapC(id) == IF id > nc THEN id - nc + Len(d.customers) ELSE id
        mapV(id) == IF id > nv THEN id - nv + Len(d.vehicles) ELSE id
        newC == SubSeq(tx.x.db.customers, nc + 1, Len(tx.x.db.customers))
        newV == [i \in 1..(Len(tx.x.db.vehicles) - nv) |->
                    [tx.x.db.vehicles[nv + i] EXCEPT !.customer = mapC(@)]]
    IN  [ok |-> TRUE,
         db |-> [customers |-> d.customers \o newC, vehicles |-> d.vehicles \o newV,
                 orders |-> d.orders],
         customer |-> mapC(tx.x.customer), vehicle |-> mapV(tx.x.vehicle),
         existing_order |-> tx.x.existing_order]

\* The tables and the answer when the transaction of tx ends on the tables d.
StartEnd(d, tx, t) ==
    StartStore(d, Rebase(d, tx), tx.req, Upper(Strip(tx.req.plate_number)),
               get_user_branch(tx.req.user), t)

\* A start-order request runs up to its read of the vehicle's created order:
\* it answers early, or fails, or stays inside its transaction.
StartOrderBegin(R) ==
    \E r \in R :
        LET x == StartResolve(db, r, Upper(Strip(r.plate_number)), get_user_branch(r.user))
        IN  /\ Len(inflight) < MaxInflight
            /\ IF StartEarly(db, r).done
               THEN /\ last' = [op |-> "start_order", user |-> r.user, resp |-> StartEarly(db, r).resp]
                    /\ UNCHANGED <<customers, vehicles, orders, now, inflight>>
               ELSE IF ~x.ok
               THEN /\ last' = [op |-> "start_order", user |-> r.user, resp |-> Response(500, "error")]
                    /\ UNCHANGED <<customers, vehicles, orders, now, inflight>>
               ELSE /\ inflight' = Append(inflight, [req |-> r, x |-> x,
                                                     base |-> <<Len(customers), Len(vehicles)>>])
                    /\ UNCHANGED <<customers, vehicles, orders, now, last>>

\* A start-order request inside its transaction stores its order and commits.
StartOrderEnd ==
    \E i \in 1..Len(inflight) :
        LET res == StartEnd(db, inflight[i], now)
        IN  /\ Len(res.db.orders) <= MaxRaceOrders
            /\ customers' = res.db.customers
            /\ vehicles' = res.db.vehicles
            /\ orders' = res.db.orders
            /\ last' = [op |-> "start_order", user |-> inflight[i].req.user, resp |-> res.resp]
            /\ inflight' = SubSeq(inflight, 1, i - 1) \o SubSeq(inflight, i + 1, Len(inflight))
            /\ UNCHANGED now

RaceStartRequests ==
    {StartRequest(u, <<"A">>, <<"service">>, c[1], c[2], <<>>, NoneInt, f) :
        u \in {"u1", "u2"}, c \in {<<FALSE, NoId>>, <<TRUE, 1>>}, f \in {NoFault, "order"}}

RaceCompleteRequests == [user : {"u1"}, order_id : 1..MaxRaceOrders, action : {"complete_order"}]

NextRace ==
    \/ StartOrderBegin(RaceStartRequests)
    \/ StartOrderEnd
    \/ StartedOrderDetail(RaceCompleteRequests)

SpecRace == Init /\ [][NextRace]_vars

\* Two requests are inside their transactions at once, for one vehicle that is
\* stored, and each has read that the vehicle has no created order.
Overlapping(i, j) ==
    /\ i # j
    /\ inflight[i].x.vehicle = inflight[j].x.vehicle
    /\ inflight[i].x.vehicle <= inflight[i].base[2]
    /\ inflight[j].x.vehicle <= inflight[j].base[2]
    /\ inflight[i].x.existing_order = NoId
    /\ inflight[j].x.existing_order = NoId
    /\ inflight[i].req.fault = NoFault
    /\ inflight[j].req.fault = NoFault

\* C3: when two overlapping start-order requests for one plate of one branch
\* have both read that the vehicle has no created order, each of them inserts
\* an order, and the vehicle then has two orders with status 'created'.
C3_StartRaces ==
    \A i \in 1..Len(inflight) : \A j \in 1..Len(inflight) :
        Overlapping(i, j)
        => LET a == StartEnd(db, inflight[i], now)
               b == StartEnd(a.db, inflight[j], now)
               v == inflight[i].x.vehicle
           IN  /\ a.resp.status = 201
               /\ b.resp.status = 201
               /\ a.resp.order_id # b.resp.order_id
               /\ {a.resp.order_id, b.resp.order_id} \subseteq CreatedOrdersOf(b.db, v)

\* Two start-order requests have left one vehicle with two created orders.
C3_Witness ==
    /\ last.op = "start_order"
    /\ last.resp.status = 201
    /\ \E o1 \in 1..Len(orders) : \E o2 \in 1..Len(orders) :
        /\ o1 < o2
        /\ orders[o1].vehicle = orders[o2].vehicle
        /\ orders[o1].status = "created"
        /\ orders[o2].status = "created"
        /\ orders[o1].description[1] = "Order started for"
        /\ orders[o2].description[1] = "Order started for"

-----------------------------------------------------------------------------
(* The life of an order after its start: completion, overrun reasons and the *)
(* merge of extracted data, by users of two branches and by a user without   *)
(* a branch, while the clock moves on.                                       *)

\* A user for whom get_user_branch gives no branch.
NoBranchUser == "u4"

OpsStartRequests ==
    {StartRequest(u, <<"A">>, <<"service">>, FALSE, NoId, <<>>, NoneInt, NoFault) :
        u \in {"u1", "u3", NoBranchUser}}
    \cup {StartRequest("u1", <<"A">>, <<"service">>, TRUE, id, <<>>, NoneInt, NoFault) :
            id \in 1..MaxId}

OpsModalRequests ==
    {FormRequest("u1", NoId, <<"n">>, <<"5">>, <<"personal">>, <<"owner">>, <<>>, <<>>, <<>>, NoFault)}

OpsExtractionRequests ==
    {FormRequest(u, id, <<"n">>, <<"5">>, <<"personal">>, <<"owner">>, <<>>, <<>>, <<>>, NoFault) :
        u \in {"u1", "u3"}, id \in 0..MaxId}

OpsCompleteRequests ==
    [user : {"u1", "u3", NoBranchUser}, order_id : 1..MaxId, action : {"complete_order"}]

OverrunReasons == {<<>>, <<" ">>, <<" ", "late", " ">>}

OverrunRequests == [user : {"u1", "u3", NoBranchUser}, order_id : 1..MaxId, reason : OverrunReasons]

NextOps ==
    \/ StartOrder(OpsStartRequests)
    \/ CreateOrderFromModal(OpsModalRequests)
    \/ UpdateOrderFromExtraction(OpsExtractionRequests)
    \/ StartedOrderDetail(OpsCompleteRequests)
    \/ RecordOverrunReason(OverrunRequests)
    \/ Tick

SpecOps == Init /\ [][NextOps]_vars

\* The fields of an order other than the three of the overrun report.
SameButOverrun(a, b) ==
    /\ a.customer = b.customer
    /\ a.vehicle = b.vehicle
    /\ a.branch = b.branch
    /\ a.type = b.type
    /\ a.status = b.status
    /\ a.started_at = b.started_at
    /\ a.completed_at = b.completed_at
    /\ a.description = b.description
    /\ a.priority = b.priority
    /\ a.estimated_duration = b.estimated_duration
    /\ a.actual_duration = b.actual_duration

\* C11: a record-overrun request answered with success stores the trimmed
\* reason, the requesting user and the current time on the order, and leaves
\* the status and every other field of the order, every other order, every
\* customer and every vehicle as they were, whatever the status of the order.
C11_OverrunFrame ==
    \A r \in OverrunRequests :
        LET res == api_record_overrun_reason(db, r, now)
        IN  res.resp.status = 200
            => /\ r.order_id \in 1..Len(orders)
               /\ res.db.customers = customers
               /\ res.db.vehicles = vehicles
               /\ Len(res.db.orders) = Len(orders)
               /\ \A o \in 1..Len(orders) : o # r.order_id => res.db.orders[o] = orders[o]
               /\ res.db.orders[r.order_id].overrun_reason = Strip(r.reason)
               /\ res.db.orders[r.order_id].overrun_reported_by = r.user
               /\ res.db.orders[r.order_id].overrun_reported_at = Some(now)
               /\ SameButOverrun(res.db.orders[r.order_id], orders[r.order_id])

\* An overrun reason was recorded on a completed order, after its completion.
C11_Witness ==
    /\ last.op = "record_overrun_reason"
    /\ last.resp.status = 200
    /\ \E o \in 1..Len(orders) :
        /\ orders[o].status = "completed"
        /\ orders[o].overrun_reason = <<"late">>
        /\ orders[o].overrun_reported_at = Some(now)
        /\ orders[o].completed_at # Some(now)

\* C12: complete_order on an order of the user's branch always succeeds: the
\* order has status 'completed' and completed_at is the time of the request,
\* whatever its status was and whether or not it has a vehicle.
C12_CompleteAlwaysSucceeds ==
    \A r \in OpsCompleteRequests :
        OrderInBranch(db, r.order_id, get_user_branch(r.user))
        => LET res == started_order_detail(db, r, now)
           IN  /\ res.resp.status = 302
               /\ res.resp.kind = "dashboard"
               /\ Len(res.db.orders) = Len(orders)
               /\ res.db.orders[r.order_id].status = "completed"
               /\ res.db.orders[r.order_id].completed_at = Some(now)

\* An order without a vehicle was completed, later than it was started.
C12_Witness ==
    /\ last.op = "complete_order"
    /\ last.resp.status = 302
    /\ \E o \in 1..Len(orders) :
        /\ orders[o].vehicle = NoId
        /\ orders[o].status = "completed"
        /\ orders[o].completed_at = Some(now)
        /\ orders[o].started_at < now

\* C13: a request that names an order id, or a confirmed start that names a
\* customer id, which does not exist in the branch of the requesting user is
\* answered with status 404 and changes no record.
C13_NotFoundIs404 ==
    /\ \A r \in OpsExtractionRequests :
        (r.order_id # NoId /\ ~OrderInBranch(db, r.order_id, get_user_branch(r.user)))
        => LET res == api_update_order_from_extraction(db, r)
           IN  res.resp.status = 404 /\ res.db = db
    /\ \A r \in OverrunRequests :
        (Truthy(Strip(r.reason)) /\ ~OrderInBranch(db, r.order_id, get_user_branch(r.user)))
        => LET res == api_record_overrun_reason(db, r, now)
           IN  res.resp.status = 404 /\ res.db = db
    /\ \A r \in OpsStartRequests :
        (/\ r.use_existing_customer
         /\ r.existing_customer_id # NoId
         /\ ~StartEarly(db, r).done
         /\ ~CustomerInBranch(db, r.existing_customer_id, get_user_branch(r.user)))
        => LET res == api_start_order(db, r, now)
           IN  res.resp.status = 404 /\ res.db = db

\* C14: no two vehicles whose customers are in the same branch have plate
\* numbers that are equal ignoring letter case.
C14_PlateUniqueInBranch ==
    \A v \in 1..Len(vehicles) : \A w \in 1..Len(vehicles) :
        (/\ v # w
         /\ BranchOfVehicle(v) = BranchOfVehicle(w)
         /\ SamePlate(vehicles[v].plate_number, vehicles[w].plate_number))
        => FALSE

-----------------------------------------------------------------------------
(* Start-order and complete_order alone: the placeholder customers and the   *)
(* estimate of the selected services.                                        *)

\* Starts of the users of two branches: unconfirmed, confirmed, and with a
\* customer id but no flag (by u2 only), also when the customer service fails.
PlaceholderRequests ==
    {StartRequest(u, p, <<"service">>, FALSE, NoId, <<>>, NoneInt, NoFault) :
        u \in {"u1", "u2", "u3"}, p \in {<<"A">>, <<"a", " ">>, <<"b">>}}
    \cup {StartRequest("u1", <<"A">>, <<"service">>, TRUE, id, <<>>, NoneInt, NoFault) : id \in 1..2}
    \cup {StartRequest("u2", <<"A">>, <<"service">>, FALSE, 1, <<>>, NoneInt, f) :
            f \in {NoFault, "customer_service"}}
    \cup {StartRequest("u1", <<"b">>, <<"service">>, FALSE, NoId, <<>>, NoneInt, "customer_service")}

DurationSelections ==
    {<<>>, <<"Oil">>, <<"Wash">>, <<"Check">>, <<"Zzz">>, <<"Wax", "Oil">>, <<"Wash", "Wax">>}

\* Starts with selected services, with and without an estimate of their own.
DurationRequests ==
    {StartRequest("u1", <<"A">>, ty, use, IF use THEN 1 ELSE NoId, sel, est, f) :
        ty \in {<<"service">>, <<"sales">>}, use \in BOOLEAN, sel \in DurationSelections,
        est \in {NoneInt, Some(0), Some(5)}, f \in {NoFault, "lookup"}}

\* The starts with services that the runs make.
DurationStarts ==
    {r \in DurationRequests :
        /\ r.estimated_duration # Some(0)
        /\ r.service_selection \in {<<"Wax", "Oil">>, <<"Wash">>, <<"Zzz">>}
        /\ (r.fault = "lookup" => r.service_selection = <<"Wax", "Oil">>)
        /\ (r.order_type = <<"sales">> => r.service_selection = <<"Wax", "Oil">>)}

StartCompleteRequests == [user : {"u1", "u3"}, order_id : 1..MaxOrders, action : {"complete_order"}]

NextStart ==
    \/ StartOrder(PlaceholderRequests)
    \/ StartOrder(DurationStarts)
    \/ StartedOrderDetail(StartCompleteRequests)

SpecStart == Init /\ [][NextStart]_vars

\* The customer is the placeholder of some plate: 'Plate X' with 'PLATE_X'.
IsPlaceholder(c) ==
    /\ Len(c.full_name) > 2
    /\ SubSeq(c.full_name, 1, 2) = <<"Plate", " ">>
    /\ c.phone = <<"PLATE_">> \o SubSeq(c.full_name, 3, Len(c.full_name))

\* C15: each branch holds at most one placeholder customer per plate.
C15_OnePlaceholderPerPlate ==
    \A c \in 1..Len(customers) : \A e \in 1..Len(customers) :
        (/\ IsPlaceholder(customers[c])
         /\ customers[c].branch = customers[e].branch
         /\ customers[c].full_name = customers[e].full_name
         /\ customers[c].phone = customers[e].phone)
        => c = e

\* A start that needed a placeholder for a plate that already had one stored a
\* second order under it: only u2 starts with a customer id and no flag.
C15_Witness ==
    /\ last.op = "start_order"
    /\ last.user = "u2"
    /\ last.resp.status = 201
    /\ last.resp.order_id = 2
    /\ Len(orders) = 2
    /\ orders[1].status = "completed"
    /\ orders[1].customer = orders[2].customer
    /\ orders[1].vehicle = orders[2].vehicle
    /\ IsPlaceholder(customers[orders[2].customer])

\* The request asks for the estimate of its services, and the lookup works.
EstimatesServices(r) ==
    r.order_type = <<"service">> /\ r.service_selection # <<>> /\ r.fault # "lookup"

\* The rows whose name is exactly one of the selected names.
Selected(rows, r) == {x \in rows : \E i \in 1..Len(r.service_selection) : r.service_selection[i] = x.name}

ActiveServiceTypes == {x \in ServiceTypeRows : x.is_active}

\* The estimate the request supplies, none when it is missing or 0.
SuppliedEstimate(r) == IF r.estimated_duration = Some(0) THEN NoneInt ELSE r.estimated_duration

\* The order a start-order request has created, from the tables after it.
CreatedBy(res) == res.db.orders[Len(res.db.orders)]

CreatesOrder(res) == res.resp.status = 201 /\ Len(res.db.orders) = Len(orders) + 1

\* C16 as stated: a new order of type 'service' with selected services has as
\* estimated_duration the sum of the minutes of every ServiceType and every
\* ServiceAddon named in the selection; otherwise it keeps the estimate of the
\* request, or none.
C16_EstimateIsSumOfSelected ==
    \A r \in DurationRequests :
        LET res == api_start_order(db, r, now)
            sum == SumMinutes(Selected(ServiceTypeRows, r)) + SumMinutes(Selected(ServiceAddonRows, r))
        IN  CreatesOrder(res)
            => CreatedBy(res).estimated_duration =
                  IF EstimatesServices(r) THEN Some(sum) ELSE SuppliedEstimate(r)

\* C16, amended: the sum runs over the active ServiceTypes and every
\* ServiceAddon named in the selection, and is used when it is not 0; when it
\* is 0, the lookup fails or the type is not 'service', the order keeps the
\* estimate of the request, or none.
C16_EstimateIsSumOfActiveSelected ==
    \A r \in DurationRequests :
        LET res == api_start_order(db, r, now)
            sum == SumMinutes(Selected(ActiveServiceTypes, r)) + SumMinutes(Selected(ServiceAddonRows, r))
        IN  CreatesOrder(res)
            => CreatedBy(res).estimated_duration =
                  IF EstimatesServices(r) /\ sum # 0 THEN Some(sum) ELSE SuppliedEstimate(r)

\* A start with the services Wax and Oil stored an order with 15 + 30 + 10
\* minutes, though the request supplied another estimate or none.
C16_Witness ==
    /\ last.op = "start_order"
    /\ last.resp.status = 201
    /\ last.resp.order_id \in 1..Len(orders)
    /\ orders[last.resp.order_id].type = <<"service">>
    /\ orders[last.resp.order_id].estimated_duration = Some(55)
    /\ orders[last.resp.order_id].description =
          <<"Order started for", " ", "A", ":", " ", "Wax", ",", " ", "Oil">>

-----------------------------------------------------------------------------
(* The services of an order in its description: start-order and the merge of *)
(* extracted data write the description, update_order_details rewrites it.   *)

DetailStartRequests ==
    {StartRequest("u1", <<"A">>, ty, FALSE, NoId, sel, NoneInt, NoFault) :
        ty \in {<<"service">>, <<"sales">>}, sel \in {<<>>, <<"Oil">>}}

DetailDescriptions ==
    {<<>>, <<"d">>, <<"d", "\n", " ", "ADD-ONS:", " ", "x", "\n", " ", "\n", "e">>}

DetailExtractionRequests ==
    {[FormRequest("u1", 1, <<"n">>, <<"5">>, <<"personal">>, <<"owner">>, <<>>, <<>>, <<>>, NoFault)
        EXCEPT !.description = de, !.services = sv] :
        de \in DetailDescriptions, sv \in {<<>>, <<"Oil", ",", " ", "Wax">>}}

\* The lists of services of the runs: names, a blank name, and a name with a
\* line break before a header.
DetailServiceLists ==
    {<<>>, <<<<"Oil">>>>, <<<<"Wax">>, <<"Oil">>>>, <<<<" ">>>>,
     <<<<"x", "\n", "Services:", " ", "y">>>>}

\* And a list with a name with a line break before another name.
DetailServiceListsAll == DetailServiceLists \cup {<<<<"x", "\n", "y">>>>}

UpdateDetailsRequest(u, id, sv, est) ==
    [user |-> u, order_id |-> id, action |-> "update_order_details", services |-> sv,
     estimated_duration |-> est]

UpdateDetailsRequests ==
    {UpdateDetailsRequest("u1", id, sv, est) :
        id \in 1..MaxOrders, sv \in DetailServiceLists, est \in {<<>>, <<"4", "5">>}}

UpdateDetailsRequestsAll ==
    {UpdateDetailsRequest("u1", id, sv, <<>>) : id \in 1..MaxOrders, sv \in DetailServiceListsAll}

NextDetail ==
    \/ StartOrder(DetailStartRequests)
    \/ UpdateOrderFromExtraction(DetailExtractionRequests)
    \/ StartedOrderDetail(UpdateDetailsRequests)

SpecDetail == Init /\ [][NextDetail]_vars

Lines(text) == Split(text, "\n")

NoLineBreak(text) == \A i \in 1..Len(text) : text[i] # "\n"

\* What the claim says of the description after update_order_details with the
\* services of r, given the description before.
ServicesRewritten(r, before, res) ==
    LET after == res.db.orders[r.order_id].description
        header == IF orders[r.order_id].type = <<"sales">> THEN "Tire Services:" ELSE "Services:"
        again == started_order_detail(res.db, r, now)
    IN  /\ Cardinality({i \in 1..Len(Lines(after)) : IsServiceLine(Lines(after)[i])}) = 1
        /\ \E i \in 1..Len(Lines(after)) :
              Lines(after)[i] = <<header, " ">> \o Join(r.services, <<",", " ">>)
        /\ SelectSeq(Lines(after), NotServiceLine)
              = SelectSeq(SelectSeq(Lines(before), NotServiceLine), NotBlank)
        /\ again.db.orders[r.order_id].description = after

\* C17 as stated: after update_order_details with a non-empty list of services
\* the description has exactly one line that starts with a header, that line
\* lists the services, the other non-blank lines are kept in order, and the
\* same update applied again changes nothing.
C17_ServicesRewritten ==
    \A r \in UpdateDetailsRequestsAll :
        (r.services # <<>> /\ OrderInBranch(db, r.order_id, get_user_branch(r.user)))
        => ServicesRewritten(r, orders[r.order_id].description, started_order_detail(db, r, now))

\* C17, amended: the same, when no submitted service name has a line break.
C17_ServicesRewrittenNoLineBreak ==
    \A r \in UpdateDetailsRequestsAll :
        (/\ r.services # <<>>
         /\ \A i \in 1..Len(r.services) : NoLineBreak(r.services[i])
         /\ OrderInBranch(db, r.order_id, get_user_branch(r.user)))
        => ServicesRewritten(r, orders[r.order_id].description, started_order_detail(db, r, now))

\* update_order_details has rewritten the services of a description that the
\* merge of extracted data had written, with an add-ons line and a blank line.
C17_Witness ==
    /\ last.op = "update_order_details"
    /\ last.resp.status = 302
    /\ \E o \in 1..Len(orders) :
        orders[o].description = <<"d", "\n", "e", "\n", "Services:", " ", "Wax", ",", " ", "Oil">>

-----------------------------------------------------------------------------
(* The counts of the started orders, over days. *)

KpiStartRequests ==
    {StartRequest(u, <<"A">>, <<"service">>, FALSE, NoId, <<>>, NoneInt, NoFault) : u \in {"u1", "u3"}}
    \cup {StartRequest("u1", <<"b">>, <<"service">>, FALSE, NoId, <<>>, NoneInt, NoFault),
          StartRequest("u1", <<"A">>, <<"service">>, TRUE, 1, <<>>, NoneInt, NoFault)}

KpiModalRequests ==
    {FormRequest("u1", NoId, <<"n">>, <<"5">>, <<"personal">>, <<"owner">>, <<>>, <<>>, p, NoFault) :
        p \in {<<>>, <<"a">>}}

KpiCompleteRequests == [user : {"u1"}, order_id : 1..MaxKpiOrders, action : {"complete_order"}]

KpiRequests == [user : {"u1", "u3"}]

DashboardRequests == [user : {"u1", "u3"}, status : {"created", "completed"}]

NextKpi ==
    \/ \E r \in KpiStartRequests : AnswerUpTo(MaxKpiOrders, "start_order", r, api_start_order(db, r, now))
    \/ \E r \in KpiModalRequests :
          AnswerUpTo(MaxKpiOrders, "create_order_from_modal", r, api_create_order_from_modal(db, r, now))
    \/ StartedOrderDetail(KpiCompleteRequests)
    \/ StartedOrdersKpis(KpiRequests)
    \/ StartedOrdersDashboard(DashboardRequests)
    \/ Tick

SpecKpi == Init /\ [][NextKpi]_vars

\* The orders of a branch, of any status, that were started on the day of t
\* and have a vehicle.
OrdersOfToday(branch, t) ==
    {o \in 1..Len(orders) :
        /\ orders[o].branch = branch
        /\ Date(orders[o].started_at) = Date(t)
        /\ orders[o].vehicle # NoId}

\* C18: repeated_vehicles_today is the number of distinct plate numbers that
\* have at least two orders of the branch started today.
C18_RepeatedVehiclesToday ==
    \A r \in KpiRequests :
        api_started_orders_kpis(db, r, now).repeated_vehicles_today
            = Cardinality({p \in {PlateOf(db, o) : o \in OrdersOfToday(get_user_branch(r.user), now)} :
                              Cardinality({o \in OrdersOfToday(get_user_branch(r.user), now) :
                                              PlateOf(db, o) = p}) >= 2})

-----------------------------------------------------------------------------
(* The overrun report, over orders with every pair of durations. *)

ReportDurations == {NoneInt, Some(0), Some(60), Some(90)}

\* An order of a branch with its durations and, or not, an overrun reason.
ReportOrderRow(branch, actual, estimated, reason) ==
    [customer |-> IF branch = "b1" THEN 1 ELSE 2, vehicle |-> NoId, branch |-> branch,
     type |-> <<"service">>, status |-> "completed", started_at |-> 1,
     completed_at |-> Some(1), description |-> <<"d">>, priority |-> <<"medium">>,
     estimated_duration |-> estimated, actual_duration |-> actual,
     overrun_reason |-> reason,
     overrun_reported_at |-> IF reason = NoneText THEN NoneInt ELSE Some(1),
     overrun_reported_by |-> IF reason = NoneText THEN "None" ELSE "u1"]

ReportCustomers ==
    <<CustomerRow(FormCustomerFields("b1", <<"n">>, <<"5">>, <<"personal">>, <<"owner">>, <<>>, <<>>)),
      CustomerRow(FormCustomerFields("b2", <<"n">>, <<"5">>, <<"personal">>, <<"owner">>, <<>>, <<>>))>>

\* Two completed orders, of one branch or of two, with any durations.
InitReport ==
    /\ customers = ReportCustomers
    /\ vehicles = <<>>
    /\ \E a1 \in ReportDurations, e1 \in ReportDurations, a2 \in ReportDurations,
          e2 \in ReportDurations, b2 \in Branches, x2 \in {NoneText, <<"late">>} :
          orders = <<ReportOrderRow("b1", a1, e1, <<"late">>), ReportOrderRow(b2, a2, e2, x2)>>
    /\ now = 1
    /\ inflight = <<>>
    /\ last = NoRequest

ReportRequests == [user : {"u1", "u3", NoBranchUser}]

ReportOverrunRequests == [user : {"u3"}, order_id : {2}, reason : {<<"parts">>}]

NextReport ==
    \/ OverrunReports(ReportRequests)
    \/ RecordOverrunReason(ReportOverrunRequests)

SpecReport == InitReport /\ [][NextReport]_vars

\* C19: delay_minutes of a listed overrun is null exactly when actual_duration
\* or estimated_duration is missing, and otherwise it is
\* max(0, actual_duration - estimated_duration), 0 included.
C19_DelayMinutes ==
    \A r \in ReportRequests : \A x \in overrun_reports(db, r).recent_overruns :
        LET a == orders[x.id].actual_duration
            e == orders[x.id].estimated_duration
        IN  x.delay_minutes =
               IF a = NoneInt \/ e = NoneInt THEN NoneInt
               ELSE IF a[1] > e[1] THEN Some(a[1] - e[1]) ELSE Some(0)

-----------------------------------------------------------------------------
(* Branch isolation, over the requests of SpecOps. *)

\* Every row that differs between the tables d and e, or is new in e, belongs
\* to the branch b.
WritesOnlyIn(d, e, b) ==
    /\ \A o \in 1..Len(e.orders) :
          (o > Len(d.orders) \/ e.orders[o] # d.orders[o])
          => e.orders[o].branch = b /\ (o <= Len(d.orders) => d.orders[o].branch = b)
    /\ \A c \in 1..Len(e.customers) :
          (c > Len(d.customers) \/ e.customers[c] # d.customers[c]) => e.customers[c].branch = b
    /\ \A v \in 1..Len(e.vehicles) :
          (v > Len(d.vehicles) \/ e.vehicles[v] # d.vehicles[v])
          => e.customers[e.vehicles[v].customer].branch = b

\* The order, customer and vehicle that an answer names belong to the branch b.
AnswersOnlyIn(res, b) ==
    /\ res.resp.order_id # NoId => res.db.orders[res.resp.order_id].branch = b
    /\ res.resp.customer_id # NoId => res.db.customers[res.resp.customer_id].branch = b
    /\ res.resp.vehicle_id # NoId
          => res.db.customers[res.db.vehicles[res.resp.vehicle_id].customer].branch = b

IsolatedIn(d, res, b) == WritesOnlyIn(d, res.db, b) /\ AnswersOnlyIn(res, b)

OpsCheckPlateRequests == [user : {"u1", "u3", NoBranchUser}, plate_number : {<<"a", " ">>}]

OpsReadRequests == [user : {"u1", "u3", NoBranchUser}]

\* The handlers that write, and check-plate.
IsolatedHandlers ==
    /\ \A r \in OpsStartRequests :
          IsolatedIn(db, api_start_order(db, r, now), get_user_branch(r.user))
    /\ \A r \in OpsCheckPlateRequests :
          IsolatedIn(db, api_check_plate(db, r), get_user_branch(r.user))
    /\ \A r \in OpsCompleteRequests :
          IsolatedIn(db, started_order_detail(db, r, now), get_user_branch(r.user))
    /\ \A r \in OpsExtractionRequests :
          IsolatedIn(db, api_update_order_from_extraction(db, r), get_user_branch(r.user))
    /\ \A r \in OverrunRequests :
          IsolatedIn(db, api_record_overrun_reason(db, r, now), get_user_branch(r.user))

\* The counts of the started orders count orders of the user's branch only.
IsolatedCounts ==
    \A r \in OpsReadRequests :
        LET mine == {o \in 1..Len(orders) : orders[o].branch = get_user_branch(r.user)}
            k == api_started_orders_kpis(db, r, now)
        IN  /\ k.total_started = Cardinality({o \in mine : orders[o].status = "created"})
            /\ k.today_started <= k.total_started
            /\ k.repeated_vehicles_today <= Cardinality(mine)

\* The overrun report lists and counts orders of the user's branch only.
IsolatedReport ==
    \A r \in OpsReadRequests :
        LET mine == {o \in 1..Len(orders) : orders[o].branch = get_user_branch(r.user)}
            rep == overrun_reports(db, r)
        IN  /\ \A x \in rep.recent_overruns : x.id \in mine
            /\ rep.total_overruns <= Cardinality(mine)
            /\ rep.completed_late <= Cardinality(mine)

\* C20: no request of a user resolves, returns, counts or modifies an order, a
\* customer or a vehicle of a branch other than the one get_user_branch gives
\* for that user, also when it gives no branch.
C20_BranchIsolation == IsolatedHandlers /\ IsolatedCounts /\ IsolatedReport

-----------------------------------------------------------------------------
(* More properties of the requests handled one at a time (Spec). *)

\* Starts of every user with every plate, with a known, an unknown and an
\* empty order type, confirmed or not.
AnyStartRequests ==
    {StartRequest(u, p, ty, use, id, <<>>, NoneInt, NoFault) :
        u \in Users, p \in RawPlates, ty \in {<<"service">>, <<"repair">>, <<>>},
        use \in BOOLEAN, id \in {NoId, 1}}

\* C21: a start-order request with an empty or blank plate_number, or with an
\* order_type other than service, sales or inquiry, is answered with status
\* 400 and leaves every customer, vehicle and order as it was.
C21_InvalidStartIs400 ==
    \A r \in AnyStartRequests :
        (Strip(r.plate_number) = <<>>
         \/ r.order_type \notin {<<"service">>, <<"sales">>, <<"inquiry">>})
        => LET res == api_start_order(db, r, now)
           IN  res.resp.status = 400 /\ res.db = db

\* A start with an unknown order type was refused for a plate that has a
\* vehicle and a created order.
C21_Witness ==
    /\ last.op = "start_order"
    /\ last.resp.status = 400
    /\ last.resp.kind = "invalid_order_type"
    /\ \E v \in 1..Len(vehicles) : vehicles[v].plate_number = <<"A">> /\ HasCreatedOrder(v)

\* C22: a valid start-order request that names a customer of the user's
\* branch by existing_customer_id creates no customer, and any order it
\* creates has that customer and a vehicle of that customer with the
\* requested plate, whatever the use_existing_customer flag is.
C22_ChosenCustomerIsReused ==
    \A r \in AnyStartRequests :
        (/\ Strip(r.plate_number) # <<>>
         /\ r.order_type = <<"service">>
         /\ r.existing_customer_id # NoId
         /\ CustomerInBranch(db, r.existing_customer_id, get_user_branch(r.user)))
        => LET res == api_start_order(db, r, now)
           IN  /\ res.db.customers = customers
               /\ CreatesOrder(res)
                  => /\ CreatedBy(res).customer = r.existing_customer_id
                     /\ res.db.vehicles[CreatedBy(res).vehicle].customer = r.existing_customer_id
                     /\ res.db.vehicles[CreatedBy(res).vehicle].plate_number
                           = Upper(Strip(r.plate_number))

-----------------------------------------------------------------------------
(* The merge of an extraction into an order that has a history: runs that
   start an order, complete it, record an overrun on it and merge forms that
   differ in plate, estimate, priority, services and description. *)

MergeStartRequests ==
    {StartRequest("u1", <<"A">>, <<"service">>, TRUE, NoId, <<>>, est, NoFault) :
        est \in {NoneInt, Some(3)}}

MergeCompleteRequests == [user : {"u1"}, order_id : {1}, action : {"complete_order"}]

MergeOverrunRequests == [user : {"u1"}, order_id : {1}, reason : {<<"late">>}]

\* The estimates a form carries: none, a positive one, zero, a negative one
\* and one that is no integer.
MergeEstimates == {<<>>, <<"7">>, <<"0">>, <<"-", "5">>, <<"x">>}

MergePriorities == {<<"low">>, <<"top">>, <<>>}

MergeServices == {<<>>, <<"oil", ",", " ", "wash">>, <<" ", ",">>}

MergeRequests ==
    {[FormRequest("u1", id, <<"n">>, <<"5">>, <<"personal">>, <<"owner">>, <<>>, <<>>, p, NoFault)
        EXCEPT !.estimated_duration = est, !.priority = pri, !.services = sv, !.description = d] :
        id \in 1..MaxOrders, p \in {<<>>, <<"b">>}, est \in MergeEstimates,
        pri \in MergePriorities, sv \in MergeServices, d \in {<<>>, <<"d">>}}

\* The forms the runs merge; the others are merged into every state reached.
MergedRequests ==
    {r \in MergeRequests :
        /\ r.estimated_duration \in {<<>>, <<"7">>, <<"-", "5">>}
        /\ r.priority = <<"low">> /\ r.services = <<>> /\ r.description = <<"d">>}

NextMerge ==
    \/ StartOrder(MergeStartRequests)
    \/ StartedOrderDetail(MergeCompleteRequests)
    \/ RecordOverrunReason(MergeOverrunRequests)
    \/ UpdateOrderFromExtraction(MergedRequests)
    \/ Tick

SpecMerge == Init /\ [][NextMerge]_vars

\* The description the claim expects of a form: the description, then a
\* Services: line when the form names a service.
ExpectedDescription(r, after) ==
    LET parts == Split(Strip(r.services), ",")
        named == \E i \in 1..Len(parts) : Strip(parts[i]) # <<>>
        lines == Lines(after)
    IN  IF ~named THEN after = Strip(r.description)
        ELSE /\ IsServiceLine(lines[Len(lines)])
             /\ IF Strip(r.description) = <<>> THEN Len(lines) = 1
                ELSE Len(lines) = 2 /\ lines[1] = Strip(r.description)

\* The form submits a positive integer as its estimate.
PositiveEstimate(r) ==
    LET e == ParseInt(Strip(r.estimated_duration)) IN e # NoneInt /\ e[1] > 0

\* What the claim says the merge of r left in the order, before and after.
MergedAsClaimed(r, before, res) ==
    LET after == res.db.orders[r.order_id]
        c == res.db.customers[after.customer]
    IN  /\ c.full_name = Strip(r.customer_name) /\ c.phone = Strip(r.phone)
        /\ c.branch = get_user_branch(r.user)
        /\ ExpectedDescription(r, after.description)
        /\ after.priority = (IF Strip(r.priority) \in {<<"low">>, <<"medium">>, <<"high">>, <<"urgent">>}
                             THEN Strip(r.priority) ELSE <<"medium">>)
        /\ IF Strip(r.plate_number) = <<>> THEN after.vehicle = before.vehicle
           ELSE res.db.vehicles[after.vehicle].plate_number = Upper(Strip(r.plate_number))
        /\ IF PositiveEstimate(r)
           THEN after.estimated_duration = ParseInt(Strip(r.estimated_duration))
           ELSE after.estimated_duration = before.estimated_duration
        /\ after.status = before.status
        /\ after.started_at = before.started_at
        /\ after.completed_at = before.completed_at
        /\ SameButOverrun(after, [before EXCEPT !.customer = after.customer, !.vehicle = after.vehicle,
                                     !.description = after.description, !.priority = after.priority,
                                     !.estimated_duration = after.estimated_duration])
        /\ after.overrun_reason = before.overrun_reason
        /\ after.overrun_reported_at = before.overrun_reported_at
        /\ after.overrun_reported_by = before.overrun_reported_by

\* C23: after a successful update-order-from-extraction the order has the
\* resolved customer, the submitted description followed by a Services: line
\* when services were submitted, and the submitted priority or medium; its
\* vehicle is replaced only when a plate is submitted, its estimated_duration
\* only when a positive integer is submitted, and its status, started_at and
\* overrun fields are unchanged.
C23_MergeWritesOnlyItsFields ==
    \A r \in MergeRequests :
        LET res == api_update_order_from_extraction(db, r)
        IN  res.resp.status = 200 => MergedAsClaimed(r, orders[r.order_id], res)

-----------------------------------------------------------------------------
(* The dashboard and the KPI endpoint. *)

\* C24: for every database state and every branch the started-orders
\* dashboard and the KPI endpoint give the same total_started, today_started
\* and repeated_vehicles_today; total_started is the number of orders of the
\* branch with status 'created' and today_started the number of those started
\* today, so today_started <= total_started.
C24_DashboardAgreesWithKpis ==
    \A r \in DashboardRequests :
        LET page == started_orders_dashboard(db, r, now)
            kpis == api_started_orders_kpis(db, [user |-> r.user], now)
            created == {o \in 1..Len(orders) :
                           orders[o].branch = get_user_branch(r.user) /\ orders[o].status = "created"}
        IN  /\ page.total_started = kpis.total_started
            /\ page.today_started = kpis.today_started
            /\ page.repeated_vehicles_today = kpis.repeated_vehicles_today
            /\ kpis.total_started = Cardinality(created)
            /\ kpis.today_started
                  = Cardinality({o \in created : Date(orders[o].started_at) = Date(now)})
            /\ kpis.today_started <= kpis.total_started

\* The dashboard was shown, under the filter 'completed', for a branch that
\* has a completed order, an order started on an earlier day and a plate with
\* two orders started today.
C24_Witness ==
    /\ last.op = "started_orders_dashboard"
    /\ last.resp.orders # {}
    /\ \E o \in last.resp.orders : orders[o].status = "completed"
    /\ last.resp.today_started < last.resp.total_started
    /\ last.resp.today_started >= 1

-----------------------------------------------------------------------------
(* Requests on one order that overlap. A handler loads the order into an
   object of its own, and later saves it: order.save() writes every column
   of the object it loaded, save(update_fields=...) only the three overrun
   columns. Other requests run between the load and the save. *)

StaleStartRequests ==
    {StartRequest("u1", <<"A">>, <<"service">>, FALSE, NoId, <<>>, NoneInt, NoFault)}

StaleDetailRequests ==
    {[user |-> "u1", order_id |-> 1, action |-> "complete_order"],
     UpdateDetailsRequest("u1", 1, <<<<"Oil">>>>, <<"4", "5">>),
     [user |-> "u1", order_id |-> 1, action |-> "update_customer", full_name |-> <<"n">>,
      phone |-> <<"5">>, customer_type |-> <<"personal">>, personal_subtype |-> <<"owner">>],
     [user |-> "u1", order_id |-> 1, action |-> "update_vehicle", make |-> <<"m">>,
      model |-> <<"x">>]}

StaleExtractionRequests ==
    {FormRequest("u1", 1, <<"n">>, <<"5">>, <<"personal">>, <<"owner">>, <<>>, <<>>, <<>>, NoFault)}

StaleOverrunRequests == {[user |-> "u1", order_id |-> 1, reason |-> <<"late">>]}

\* The handler of a request on an order.
Handle(op, d, r, t) ==
    CASE op = "started_order_detail" -> started_order_detail(d, r, t)
      [] op = "update_order_from_extraction" -> api_update_order_from_extraction(d, r)
      [] op = "record_overrun_reason" -> api_record_overrun_reason(d, r, t)

\* The handler saves with update_fields: the columns it does not name are
\* not written.
SavesNamedColumns(op) == op = "record_overrun_reason"

\* The tables as the saving handler has them: the order is the object it
\* loaded, unless it writes named columns only; the rest is read when used.
StaleView(d, p) ==
    IF SavesNamedColumns(p.op) THEN d ELSE [d EXCEPT !.orders[p.req.order_id] = p.row]

\* get_object_or_404(Order, id=order_id, branch=user_branch): the handler has
\* the order; a request without one is answered at once.
LoadOrder(op, R) ==
    \E r \in R :
        /\ Len(inflight) < MaxInflight
        /\ IF OrderInBranch(db, r.order_id, get_user_branch(r.user))
           THEN /\ inflight' = Append(inflight, [op |-> op, req |-> r, row |-> orders[r.order_id]])
                /\ UNCHANGED <<customers, vehicles, orders, now, last>>
           ELSE Answer(op, r, Handle(op, db, r, now))

\* The handler reached a save of its order: the two actions of the detail
\* view that end in order.save(), and the two other handlers when they answer
\* 200. update_customer and update_vehicle save the customer and the vehicle.
SavedOrder(p, res) ==
    IF p.op = "started_order_detail"
    THEN p.req.action \in {"update_order_details", "complete_order"}
    ELSE res.resp.status = 200

\* The rest of the handler, up to its save and its answer.
SaveOrder ==
    \E i \in 1..Len(inflight) :
        LET p == inflight[i]
            res == Handle(p.op, StaleView(db, p), p.req, now)
        IN  /\ customers' = res.db.customers
            /\ vehicles' = res.db.vehicles
            /\ orders' = IF SavedOrder(p, res) THEN res.db.orders ELSE orders
            /\ last' = [op |-> p.op, user |-> p.req.user, resp |-> res.resp]
            /\ inflight' = SubSeq(inflight, 1, i - 1) \o SubSeq(inflight, i + 1, Len(inflight))
            /\ UNCHANGED now

NextStale ==
    \/ StartOrder(StaleStartRequests)
    \/ LoadOrder("started_order_detail", StaleDetailRequests)
    \/ LoadOrder("update_order_from_extraction", StaleExtractionRequests)
    \/ LoadOrder("record_overrun_reason", StaleOverrunRequests)
    \/ SaveOrder

SpecStale == Init /\ [][NextStale]_vars

\* C25: once an order has status 'completed', no request leaves it with
\* status 'created' again, under any interleaving of requests, a save of an
\* order loaded before a concurrent complete_order included.
C25_StatusIsMonotone ==
    [][\A o \in 1..Len(orders) :
          orders[o].status = "completed" => orders'[o].status = "completed"]_vars

\* The three overrun columns of an order row are set.
OverrunRecorded(row) ==
    /\ row.overrun_reason # NoneText
    /\ row.overrun_reported_at # NoneInt
    /\ row.overrun_reported_by # "None"

\* C26: a recorded overrun is never lost: once the overrun reason, reporter
\* and report time of an order are set they stay set in every later state,
\* under any interleaving with complete_order, update_order_details or
\* update-order-from-extraction requests that loaded the order before.
C26_OverrunIsNeverLost ==
    [][\A o \in 1..Len(orders) :
          OverrunRecorded(orders[o]) => OverrunRecorded(orders'[o])]_vars

-----------------------------------------------------------------------------
(* Invariants of the order rows, over requests handled one at a time. *)

\* C27: in every reachable state every order that has a vehicle has a
\* vehicle of the order's own customer; start-order, create-order-from-modal
\* and update-order-from-extraction, with or without a plate, preserve this.
C27_VehicleOfOrdersCustomer ==
    \A o \in 1..Len(orders) :
        orders[o].vehicle # NoId => vehicles[orders[o].vehicle].customer = orders[o].customer

\* C28: in every state reached by requests handled one at a time an order
\* has completed_at set if and only if its status is 'completed': a created
\* order has none, and no request changes the status without changing
\* whether completed_at is set, or the reverse.
C28_CompletedAtIffCompleted ==
    \A o \in 1..Len(orders) :
        (orders[o].completed_at # NoneInt) <=> (orders[o].status = "completed")

\* An order was completed while another one, created from the modal, is
\* still open.
C28_Witness ==
    /\ last.op = "complete_order"
    /\ last.resp.status = 302
    /\ orders[last.resp.order_id].status = "completed"
    /\ orders[last.resp.order_id].completed_at = Some(now)
    /\ \E o \in 1..Len(orders) :
          /\ orders[o].status = "created"
          /\ orders[o].completed_at = NoneInt
          /\ orders[o].description = <<"d">>

\* The vehicles of the plate in the user's branch have a completed order and
\* no created one.
PlateIsCompleted(r) ==
    LET matches == PlateMatches(r.plate_number, get_user_branch(r.user))
    IN  /\ \E o \in 1..Len(orders) : orders[o].vehicle \in matches /\ orders[o].status = "completed"
        /\ \A v \in matches : ~HasCreatedOrder(v)

\* The request confirms the reuse of a customer, and names none or one of
\* the user's branch.
Confirmed(r) ==
    /\ r.use_existing_customer \/ r.existing_customer_id # NoId
    /\ r.existing_customer_id # NoId
          => CustomerInBranch(db, r.existing_customer_id, get_user_branch(r.user))

\* C29: whenever start-order returns an order_id, the order it names has
\* status 'created' and the branch of the requesting user when the answer is
\* given; a completed order is never returned: once the orders of a plate are
\* completed an unconfirmed start-order for the plate gets the probe response
\* and a confirmed one a new order with another order_id.
C29_StartReturnsOpenOrdersOfBranch ==
    \A r \in AnyStartRequests :
        LET res == api_start_order(db, r, now)
            id == res.resp.order_id
        IN  /\ id # NoId
               => /\ id \in 1..Len(res.db.orders)
                  /\ res.db.orders[id].status = "created"
                  /\ res.db.orders[id].branch = get_user_branch(r.user)
            /\ (PlateIsCompleted(r) /\ r.order_type = <<"service">>)
               => /\ Unconfirmed(r)
                     => /\ id = NoId
                        /\ res.resp.kind = "existing_customer"
                        /\ res.db = db
                  /\ Confirmed(r)
                     => /\ res.resp.status = 201
                        /\ id = Len(orders) + 1
                        /\ Len(res.db.orders) = Len(orders) + 1

\* A confirmed start-order has just created the second order of a vehicle
\* whose first order is completed.
C29_Witness ==
    /\ last.op = "start_order"
    /\ last.resp.status = 201
    /\ last.resp.order_id = 2
    /\ Len(orders) = 2
    /\ orders[1].status = "completed"
    /\ orders[2].status = "created"
    /\ orders[1].vehicle = orders[2].vehicle

\* The vehicle a query for the plate of r gives first, in the user's branch.
MatchedVehicle(r) ==
    LET matches == PlateMatches(r.plate_number, get_user_branch(r.user))
    IN  IF matches = {} THEN NoId ELSE Min(matches)

\* C30: the probe of start-order and check-plate agree: in every database
\* state, for every branch and plate with no created order on the matched
\* vehicle, an unconfirmed start-order (of an order type it accepts) returns
\* the existing customer and vehicle if and only if check-plate returns found
\* for the plate, and both name the same customer id and vehicle id.
C30_ProbeAgreesWithCheckPlate ==
    \A r \in AnyStartRequests :
        (/\ Unconfirmed(r)
         /\ r.order_type = <<"service">>
         /\ MatchedVehicle(r) # NoId => ~HasCreatedOrder(MatchedVehicle(r)))
        => LET probe == api_start_order(db, r, now).resp
               check == api_check_plate(db, [user |-> r.user, plate_number |-> r.plate_number]).resp
           IN  /\ (probe.kind = "existing_customer") <=> check.found
               /\ check.found
                  => /\ probe.customer_id = check.customer_id
                     /\ probe.vehicle_id = check.vehicle_id
                     /\ check.vehicle_id = MatchedVehicle(r)

\* check-plate has just found a plate that two vehicles of the branch carry,
\* neither of them with a created order.
C30_Witness ==
    /\ last.op = "check_plate"
    /\ last.resp.found
    /\ \E p \in RawPlates :
          /\ Cardinality(PlateMatches(p, get_user_branch(last.user))) >= 2
          /\ last.resp.vehicle_id \in PlateMatches(p, get_user_branch(last.user))
          /\ \A v \in PlateMatches(p, get_user_branch(last.user)) : ~HasCreatedOrder(v)

====
